---------------------------- MODULE Spec2Model ----------------------------
(***************************************************************************)
(* A model of the vault application: the polite crawler                    *)
(* (vault_core/crawler.py), the provenance manifest                         *)
(* (vault_core/manifest.py, scripts/cleanup_manifest.py),                   *)
(* the ingest pipeline                                                      *)
(* (vault_core/ingest/pipeline.py, vault_cli.py) and the search index       *)
(* (vault_core/search/indexer.py, scripts/index_docs.py).                   *)
(***************************************************************************)
EXTENDS Integers, Sequences, FiniteSets, Bags, TLC

\* --------------------------------------------------------------------------
\* Bounds of the model
\* --------------------------------------------------------------------------
\* longest seed list handed to crawl_seed_urls
MaxSeeds == 2
\* largest max_depth of a CrawlConfig
MaxDepthBound == 2
\* largest number of clock ticks that pass between two statements
MaxJitter == 1
\* most calls of append_record in one run
MaxAppends == 3
\* most records of a manifest handed to cleanup_manifest
MaxRecords == 3
\* most ingest commands started in one run
MaxIngests == 3

NONE == "None"

EmptyMap == [x \in {} |-> x]

\* --------------------------------------------------------------------------
\* The crawler: vault_core/crawler.py
\* --------------------------------------------------------------------------
VARIABLES
    seed_urls,          \* the seed list crawl_seed_urls was called with
    cfg,                \* CrawlConfig: max_depth, same_domain_only, delay_seconds
    web,                \* the link graph: the hrefs of each page, resolved
    net,                \* what the servers may answer, how fast time passes
    queue,              \* deque of <<url, depth>>
    visited,            \* set of URLs
    parsers,            \* RobotsCache._parsers: origin -> parser state
    last_request_time,  \* DomainThrottler.last_request_time: netloc -> time
    clock,              \* time.time()
    crawl_pc,           \* "loop" while in the while loop, then "done"
    fetchLog,           \* history: one entry per call of fetch_url
    docLog,             \* history: the URLs handed to on_document, in order
    expandLog,          \* history: the URLs whose links were enqueued
    errLog              \* history: the calls of on_document that raised

crawlVars == <<seed_urls, cfg, web, net, queue, visited, parsers, last_request_time,
               clock, crawl_pc, fetchLog, docLog, expandLog, errLog>>

\* --------------------------------------------------------------------------
\* The manifest: vault_core/manifest.py, scripts/cleanup_manifest.py
\* --------------------------------------------------------------------------
VARIABLES
    fs,                 \* the files of DATA_DIR: name -> content, a sequence of characters
    appended,           \* history: the records handed to append_record, in order
    cl_pc,              \* cleanup_manifest: where the call stands
    cl_before,          \* history: manifest.jsonl as cleanup_manifest found it
    entries,            \* cleanup_manifest: the parsed entries
    cleaned,            \* cleanup_manifest: the records it keeps
    dropped_duplicates, \* cleanup_manifest: its two counters
    dropped_anomalies,
    cl_written,         \* cleanup_manifest: the records written back so far
    cl_dry_run          \* cleanup_manifest: the dry_run argument of the call

manifestVars == <<fs, appended, cl_pc, cl_before, entries, cleaned,
                  dropped_duplicates, dropped_anomalies, cl_written, cl_dry_run>>

\* --------------------------------------------------------------------------
\* Ingest and index: vault_core/ingest/pipeline.py, vault_cli.py
\* --------------------------------------------------------------------------
VARIABLES
    input_dir,          \* the PDFs of INPUT_DIR: path -> pages
    ocr_dir,            \* the texts of OCR_DIR: path -> text
    index,              \* the search index: a bag of documents
    cli_manifest,       \* vault_cli's manifest.json: doc_id -> record
    ing_pc,             \* where the running ingest command stands
    ing,                \* the locals of the running ingest command
    started,            \* the ingest commands started so far
    ingested            \* history: doc_id -> the ingest_source calls that returned

ingestVars == <<input_dir, ocr_dir, index, cli_manifest, ing_pc, ing, started, ingested>>

\* --------------------------------------------------------------------------
\* The command-line tools: scripts/bulk_ingest.py and
\* vault_core/search_backend.py
\* --------------------------------------------------------------------------
VARIABLES
    bulk,               \* bulk_ingest.main: its arguments, locals and position
    search,             \* run_search: its arguments, what it reads, its result
    threads,            \* concurrent callers of one operation: each one's locals and position
    downloads           \* history: the requests the ingest callback of a crawl sent

toolVars == <<bulk, search, threads, downloads>>

vars == <<crawlVars, manifestVars, ingestVars, toolVars>>

NoBulk == [pc |-> "off", lines |-> <<>>, stop_on_error |-> FALSE, pos |-> 0,
           total |-> 0, successes |-> 0, failures |-> 0,
           attempted |-> <<>>, outcomes |-> <<>>, exit_status |-> NONE]

NoSearch == [pc |-> "off", entry |-> NONE, index_exists |-> TRUE, hits |-> <<>>,
             manifest |-> <<>>, case |-> NONE, kind |-> NONE, limit |-> 0,
             results |-> <<>>, raised |-> NONE, created |-> FALSE]

NoThreads == <<>>

ToolsIdle == bulk = NoBulk /\ search = NoSearch /\ threads = NoThreads /\ downloads = <<>>

IngestIdle ==
    /\ input_dir = EmptyMap
    /\ ocr_dir = EmptyMap
    /\ index = EmptyMap
    /\ cli_manifest = EmptyMap
    /\ ing_pc = "idle"
    /\ ing = [source |-> <<>>, pdf_path |-> <<>>, kind |-> "None", source_url |-> <<>>,
              text |-> <<>>, case |-> <<>>, status |-> "none", result |-> "none"]
    /\ started = 0
    /\ ingested = EmptyMap

Url(s, n, p) == [scheme |-> s, netloc |-> n, path |-> p]

\* The pages of the modelled web.  A path is its sequence of segments.
UrlRoot == Url("https", "a", <<>>)
UrlPrivate == Url("https", "a", <<"private", "x">>)
UrlPage == Url("https", "a", <<"q">>)
UrlPlain == Url("http", "a", <<"p">>)
UrlOther == Url("https", "b", <<>>)
UrlMail == Url("mailto", "a", <<"p">>)

URLS == {UrlRoot, UrlPrivate, UrlPage, UrlPlain, UrlOther}

\* The link graphs a crawl may meet: cycles, self links, repeated links,
\* links to another host, to another scheme of the same host, and links
\* that are not http(s).
WebCyclic ==
    (UrlRoot :> <<UrlPrivate, UrlPlain, UrlRoot, UrlPage, UrlPlain>>) @@
    (UrlPrivate :> <<UrlOther>>) @@
    (UrlPage :> <<UrlRoot>>) @@
    (UrlPlain :> <<UrlRoot, UrlMail, UrlOther>>) @@
    (UrlOther :> <<UrlOther, UrlRoot>>)

WebChain ==
    (UrlRoot :> <<UrlPlain>>) @@
    (UrlPrivate :> <<UrlPlain, UrlPrivate>>) @@
    (UrlPage :> <<>>) @@
    (UrlPlain :> <<UrlPrivate>>) @@
    (UrlOther :> <<>>)

WebSet == {WebCyclic, WebChain}

\* RobotsCache.can_fetch, the cache key: scheme://netloc
Base(url) == <<url.scheme, url.netloc>>

IsPrefix(p, s) == Len(p) <= Len(s) /\ SubSeq(s, 1, Len(p)) = p

\* What RobotFileParser.read leaves behind, by the answer of the server:
\*   "rules"       200, parsed: Disallow: /private/ for the crawler's agent
\*   "open"        200, parsed: nothing disallowed
\*   "forbidden"   401 or 403: disallow_all
\*   "missing"     another 4xx: allow_all
\*   "unread"      5xx, a transport error or an undecodable body: the parser
\*                 stays as constructed (the crawler swallows the exception)
RobotsAnswers == {"rules", "open", "forbidden", "missing", "unread"}

RobotFileParser(answer) ==
    [disallow_all |-> answer = "forbidden",
     allow_all |-> answer = "missing",
     last_checked |-> answer \in {"rules", "open"},
     disallowed |-> IF answer = "rules" THEN {<<"private">>} ELSE {}]

\* RobotFileParser.can_fetch as RobotsCache.can_fetch calls it.
AlwaysAllowed(rp, url) == TRUE

rp_can_fetch(rp, url) ==
    IF rp.disallow_all THEN FALSE
    ELSE IF rp.allow_all THEN TRUE
    ELSE IF ~rp.last_checked THEN FALSE
    ELSE \A d \in rp.disallowed : ~IsPrefix(d, url.path)

\* a cache that keeps only what a retrieval managed to read
RobotsRetried(url, answer) ==
    IF Base(url) \in DOMAIN parsers /\ (\/ parsers[Base(url)].last_checked
                                        \/ parsers[Base(url)].allow_all
                                        \/ parsers[Base(url)].disallow_all)
    THEN parsers
    ELSE (Base(url) :> RobotFileParser(answer)) @@ parsers

\* RobotsCache.can_fetch: the cache after the call, and the answer.
RobotsAfter(url, answer) ==
    IF Base(url) \in DOMAIN parsers THEN parsers
    ELSE parsers @@ (Base(url) :> RobotFileParser(answer))

can_fetch(url, answer) == rp_can_fetch(RobotsAfter(url, answer)[Base(url)], url)

\* extract_links: the qualifying hrefs, each once, in order of first occurrence
RECURSIVE Dedupe(_, _)
Dedupe(links, seen) ==
    IF links = <<>> THEN <<>>
    ELSE IF Head(links) \in seen THEN Dedupe(Tail(links), seen)
    ELSE <<Head(links)>> \o Dedupe(Tail(links), seen \cup {Head(links)})

\* every http(s) link is kept, whatever its host
extract_links_any_host(base_url, html, same_domain_only) ==
    Dedupe(SelectSeq(html, LAMBDA u : u.scheme \in {"http", "https"}), {})

extract_links(base_url, html, same_domain_only) ==
    LET keep(u) == /\ u.scheme \in {"http", "https"}
                   /\ (same_domain_only => u.netloc = base_url.netloc)
    IN Dedupe(SelectSeq(html, keep), {})

\* DomainThrottler.wait followed by the request of fetch_url.  `e` ticks
\* pass before wait reads the clock, `d` between that read (and the sleep)
\* and the stamp of line 78, `lat` between the stamp and the start of the
\* request.
ThrottleKey(url) == url.netloc

NoSleep(url, now) == 0

SleepFor(url, now) ==
    LET k == ThrottleKey(url) IN
    IF k \in DOMAIN last_request_time /\ now - last_request_time[k] < cfg.delay_seconds
    THEN cfg.delay_seconds - (now - last_request_time[k])
    ELSE 0

Fetch(url, e, d, lat, is_html) ==
    LET now == clock + e
        sleep_for == SleepFor(url, now)
        stamp == now + sleep_for + d
        k == ThrottleKey(url)
    IN [url |-> url, now |-> now, slept |-> sleep_for,
        stamp |-> stamp, start |-> stamp + lat, key |-> k, html |-> is_html]

\* the children line 190-193 appends
RECURSIVE Children(_, _, _)
Children(links, depth, seen) ==
    IF links = <<>> THEN <<>>
    ELSE IF Head(links) \in seen THEN Children(Tail(links), depth, seen)
    ELSE <<<<Head(links), depth + 1>>>> \o Children(Tail(links), depth, seen)

EnqueueLeft(q, children) == children \o q

\* line 193: queue.append, at the right end of the deque that line 167 pops
\* from the left
Enqueue(q, children) == q \o children

SeedSeqs == UNION {[1..n -> URLS] : n \in 0..MaxSeeds}

SeededAtOne(seeds) == [i \in 1..Len(seeds) |-> <<seeds[i], 1>>]

\* line 163-165
Seeded(seeds) == [i \in 1..Len(seeds) |-> <<seeds[i], 0>>]

CrawlStart(seeds, c, w, j) ==
    /\ seed_urls = seeds
    /\ cfg = c
    /\ web = w
    /\ net = j
    /\ queue = Seeded(seeds)
    /\ visited = {}
    /\ parsers = EmptyMap
    /\ last_request_time = EmptyMap
    /\ clock = 0
    /\ crawl_pc = "loop"
    /\ fetchLog = <<>>
    /\ docLog = <<>>
    /\ expandLog = {}
    /\ errLog = {}

Configs(delays) ==
    [max_depth : 0..MaxDepthBound, same_domain_only : BOOLEAN, delay_seconds : delays]

\* line 168-170: the popped URL is already visited
NeverVisited(url) == FALSE

AlreadyVisited(url) == url \in visited

PopVisited ==
    /\ crawl_pc = "loop"
    /\ queue # <<>>
    /\ AlreadyVisited(Head(queue)[1])
    /\ queue' = Tail(queue)
    /\ UNCHANGED <<seed_urls, cfg, web, net, visited, parsers, last_request_time, clock,
                   crawl_pc, fetchLog, docLog, expandLog, errLog>>

\* line 171-175: marked visited, refused by robots.txt
PopDisallowed ==
    /\ crawl_pc = "loop"
    /\ queue # <<>>
    /\ LET url == Head(queue)[1] IN
       /\ ~AlreadyVisited(url)
       /\ \E answer \in net.robots :
            /\ ~can_fetch(url, answer)
            /\ parsers' = RobotsAfter(url, answer)
       /\ visited' = visited \cup {url}
       /\ queue' = Tail(queue)
    /\ UNCHANGED <<seed_urls, cfg, web, net, last_request_time, clock, crawl_pc,
                   fetchLog, docLog, expandLog, errLog>>

\* line 171-193: marked visited, fetched, handed to on_document, expanded
ExpandAll(is_html, depth) == is_html

Expandable(is_html, depth) == is_html /\ depth < cfg.max_depth

uncaught_callback_error(raised) == raised

\* line 181-184: whatever on_document raises is caught and logged, it never
\* leaves the loop
callback_error_escapes(raised) == FALSE

PopFetch ==
    /\ crawl_pc = "loop"
    /\ queue # <<>>
    /\ LET url == Head(queue)[1]
           depth == Head(queue)[2]
       IN
       /\ ~AlreadyVisited(url)
       /\ \E answer \in net.robots :
            /\ can_fetch(url, answer)
            /\ parsers' = RobotsAfter(url, answer)
       /\ visited' = visited \cup {url}
       /\ docLog' = Append(docLog, url)
       /\ \E e \in 0..net.jitter, d \in 0..net.jitter, lat \in 0..net.jitter,
             is_html \in net.html, raised \in net.raises :
            LET f == Fetch(url, e, d, lat, is_html) IN
            /\ last_request_time' =
                 [k \in DOMAIN last_request_time \cup {f.key} |->
                    IF k = f.key THEN f.stamp ELSE last_request_time[k]]
            /\ clock' = f.start
            /\ fetchLog' = Append(fetchLog, f)
            /\ errLog' = IF raised
                          THEN errLog \cup {[url |-> url, depth |-> depth, html |-> is_html]}
                          ELSE errLog
            /\ IF callback_error_escapes(raised)
               THEN /\ crawl_pc' = "aborted"
                    /\ queue' = Tail(queue)
                    /\ expandLog' = expandLog
               ELSE IF Expandable(is_html, depth)
               THEN /\ queue' = Enqueue(Tail(queue),
                           Children(extract_links(url, web[url], cfg.same_domain_only),
                                    depth, visited'))
                    /\ expandLog' = expandLog \cup {url}
                    /\ crawl_pc' = crawl_pc
               ELSE /\ queue' = Tail(queue)
                    /\ expandLog' = expandLog
                    /\ crawl_pc' = crawl_pc
    /\ UNCHANGED <<seed_urls, cfg, web, net>>

\* line 167: the queue is empty, crawl_seed_urls returns
CrawlReturn ==
    /\ crawl_pc = "loop"
    /\ queue = <<>>
    /\ crawl_pc' = "done"
    /\ UNCHANGED <<seed_urls, cfg, web, net, queue, visited, parsers, last_request_time,
                   clock, fetchLog, docLog, expandLog, errLog>>

crawl_seed_urls ==
    /\ PopVisited \/ PopDisallowed \/ PopFetch \/ CrawlReturn
    /\ UNCHANGED <<manifestVars, ingestVars, toolVars>>

\* The network of a crawl: the answers a robots.txt request may get, whether
\* a page request may give HTML (TRUE) or nothing usable (FALSE: an error
\* status, another content type, a transport error or the timeout of line
\* 85), whether a server may accept a request and never answer it (silent),
\* and the clock ticks that may pass between two statements.  crawl_seed_urls never
\* branches on the clock, so the crawls that are not about time run with a
\* clock that moves only when wait sleeps.
AnyServers ==
    [robots |-> RobotsAnswers, html |-> BOOLEAN, raises |-> {FALSE}, jitter |-> 0,
     silent |-> {FALSE}]

\* --------------------------------------------------------------------------
\* JSON lines.  A text is a sequence of characters; the characters that
\* json.dumps, the line splitters and str.strip treat specially stand for
\* themselves, every other character is an ordinary one.
\* --------------------------------------------------------------------------
LF == "LF"
LS == "U+2028"
QUOTE == "QUOTE"
BSLASH == "BSLASH"
Whitespace == {LF, LS}

Null == [t |-> "null", s |-> <<>>]

Str(s) == [t |-> "str", s |-> s]

\* Python truthiness of a JSON value: not None and not ""
Truthy(v) == v.t = "str" /\ v.s # <<>>

\* dict.get: None for a key the record does not have
Get(rec, k) == IF <<k>> \in DOMAIN rec THEN rec[<<k>>] ELSE Null

\* the keys build_provenance_record and the web ingest write, in their order,
\* and a key that no reader of the manifest interprets
KeyOrder == <<"kind", "pdf", "txt", "source_url", "case", "note">>

RawChar(c) == <<c>>

\* json.dumps(..., ensure_ascii=False) of one character of a string
json_escape(c) ==
    IF c = LF THEN <<BSLASH, "n">>
    ELSE IF c \in {QUOTE, BSLASH} THEN <<BSLASH, c>>
    ELSE <<c>>

RECURSIVE json_chars(_)
json_chars(s) ==
    IF s = <<>> THEN <<>> ELSE json_escape(Head(s)) \o json_chars(Tail(s))

json_string(s) == <<QUOTE>> \o json_chars(s) \o <<QUOTE>>

json_value(v) == IF v.t = "null" THEN <<"null">> ELSE json_string(v.s)

RECURSIVE json_members(_, _, _)
json_members(rec, i, first) ==
    IF i > Len(KeyOrder) THEN <<>>
    ELSE IF <<KeyOrder[i]>> \notin DOMAIN rec THEN json_members(rec, i + 1, first)
    ELSE (IF first THEN <<>> ELSE <<",">>)
         \o json_string(<<KeyOrder[i]>>) \o <<":">> \o json_value(rec[<<KeyOrder[i]>>])
         \o json_members(rec, i + 1, FALSE)

json_dumps(rec) == <<"{">> \o json_members(rec, 1, TRUE) \o <<"}">>

\* json.loads: [ok, is_dict, v]
Unparsed == [ok |-> FALSE, is_dict |-> FALSE, v |-> Null, next |-> 0]

\* the string whose opening quote is before line[i]
RECURSIVE ScanString(_, _, _)
ScanString(line, i, acc) ==
    IF i > Len(line) THEN Unparsed
    ELSE IF line[i] = QUOTE
         THEN [ok |-> TRUE, is_dict |-> FALSE, v |-> Str(acc), next |-> i + 1]
    ELSE IF line[i] = BSLASH
         THEN IF i + 1 > Len(line) THEN Unparsed
              ELSE IF line[i + 1] = "n" THEN ScanString(line, i + 2, Append(acc, LF))
              ELSE IF line[i + 1] = "u2028" THEN ScanString(line, i + 2, Append(acc, LS))
              ELSE IF line[i + 1] \in {QUOTE, BSLASH}
                   THEN ScanString(line, i + 2, Append(acc, line[i + 1]))
              ELSE Unparsed
    ELSE IF line[i] = LF THEN Unparsed
    ELSE ScanString(line, i + 1, Append(acc, line[i]))

ScanValue(line, i) ==
    IF i > Len(line) THEN Unparsed
    ELSE IF line[i] = "null"
         THEN [ok |-> TRUE, is_dict |-> FALSE, v |-> Null, next |-> i + 1]
    ELSE IF line[i] = QUOTE THEN ScanString(line, i + 1, <<>>)
    ELSE Unparsed

\* the members of an object from line[i] on; a repeated key keeps its last value
RECURSIVE ScanMembers(_, _, _)
ScanMembers(line, i, acc) ==
    IF i > Len(line) \/ line[i] # QUOTE THEN Unparsed
    ELSE LET k == ScanString(line, i + 1, <<>>) IN
         IF ~k.ok \/ k.next > Len(line) \/ line[k.next] # ":" THEN Unparsed
         ELSE LET v == ScanValue(line, k.next + 1)
                  rec == [x \in DOMAIN acc \cup {k.v.s} |->
                            IF x = k.v.s THEN v.v ELSE acc[x]]
              IN
              IF ~v.ok \/ v.next > Len(line) THEN Unparsed
              ELSE IF line[v.next] = "}"
                   THEN IF v.next = Len(line)
                        THEN [ok |-> TRUE, is_dict |-> TRUE, v |-> rec, next |-> v.next + 1]
                        ELSE Unparsed
              ELSE IF line[v.next] = "," THEN ScanMembers(line, v.next + 1, rec)
              ELSE Unparsed

json_loads(line) ==
    IF line = <<>> THEN Unparsed
    ELSE IF line[1] = "{"
         THEN IF Len(line) = 2 /\ line[2] = "}"
              THEN [ok |-> TRUE, is_dict |-> TRUE, v |-> EmptyMap, next |-> 3]
              ELSE ScanMembers(line, 2, EmptyMap)
    ELSE LET r == ScanValue(line, 1) IN
         IF r.ok /\ r.next = Len(line) + 1 THEN r ELSE Unparsed

\* str.strip
RECURSIVE LStrip(_)
LStrip(s) == IF s # <<>> /\ Head(s) \in Whitespace THEN LStrip(Tail(s)) ELSE s

RECURSIVE RStrip(_)
RStrip(s) ==
    IF s # <<>> /\ s[Len(s)] \in Whitespace THEN RStrip(SubSeq(s, 1, Len(s) - 1)) ELSE s

Strip(s) == RStrip(LStrip(s))

\* the lines of a text, cut at the characters of seps (the separators
\* dropped; the empty piece after a final separator is kept, every reader
\* skips empty lines)
SplitLines(text, seps) ==
    LET cuts == {i \in 1..Len(text) : text[i] \in seps}
        n == Cardinality(cuts)
        cut(k) == IF k = 0 THEN 0
                  ELSE IF k = n + 1 THEN Len(text) + 1
                  ELSE CHOOSE p \in cuts : Cardinality({q \in cuts : q <= p}) = k
    IN [k \in 1..(n + 1) |-> SubSeq(text, cut(k - 1) + 1, cut(k) - 1)]

\* --------------------------------------------------------------------------
\* vault_core/manifest.py
\* --------------------------------------------------------------------------
MANIFEST_PATH == "manifest.jsonl"

backup_path == "manifest.jsonl.bak"

\* open(path, "a") and one write of text
AppendText(files, path, text) ==
    [p \in DOMAIN files \cup {path} |->
        IF p = path THEN (IF path \in DOMAIN files THEN files[path] ELSE <<>>) \o text
        ELSE files[p]]

written_line(record) == json_dumps(record) \o <<LF>>

\* the generator of iter_records over the lines a text file yields
RECURSIVE LoadLines(_, _)
LoadLines(lines, dicts_only) ==
    IF lines = <<>> THEN <<>>
    ELSE LET line == Strip(Head(lines))
             r == json_loads(line)
         IN (IF line # <<>> /\ r.ok /\ (r.is_dict \/ ~dicts_only) THEN <<r.v>> ELSE <<>>)
            \o LoadLines(Tail(lines), dicts_only)

iter_records(files) ==
    IF MANIFEST_PATH \notin DOMAIN files THEN <<>>
    ELSE LoadLines(SplitLines(files[MANIFEST_PATH], {LF}), FALSE)

\* the records of the callers of append_record
Rec(kind, case, pdf, txt, url) ==
    (<<"kind">> :> kind) @@ (<<"case">> :> case) @@ (<<"pdf">> :> pdf)
    @@ (<<"txt">> :> txt) @@ (<<"source_url">> :> url)

AppendedRecords ==
    {Rec(Str(<<"test_record">>), Null, Str(<<"x.pdf">>), txt, url) :
        txt \in {Str(<<"example.txt">>), Str(<<"a", LF, "b">>),
                 Str(<<QUOTE, "n">>), Str(<<BSLASH, "n">>)},
        url \in {Null, Str(<<"u", LS>>)}}

append_record(record) ==
    /\ cl_pc = "idle"
    /\ Len(appended) < MaxAppends
    /\ fs' = AppendText(fs, MANIFEST_PATH, written_line(record))
    /\ appended' = Append(appended, record)
    /\ UNCHANGED <<cl_pc, cl_before, entries, cleaned, dropped_duplicates,
                   dropped_anomalies, cl_written, cl_dry_run>>

AppendAny ==
    /\ \E record \in AppendedRecords : append_record(record)
    /\ UNCHANGED <<crawlVars, ingestVars, toolVars>>

ManifestStart(files) ==
    /\ fs = files
    /\ appended = <<>>
    /\ cl_pc = "idle"
    /\ cl_before = <<>>
    /\ entries = <<>>
    /\ cleaned = <<>>
    /\ dropped_duplicates = 0
    /\ dropped_anomalies = 0
    /\ cl_written = 0
    /\ cl_dry_run = FALSE

CrawlIdle ==
    CrawlStart(<<>>, [max_depth |-> 1, same_domain_only |-> TRUE, delay_seconds |-> 2],
               WebChain, AnyServers)

\* the manifest does not exist yet, or exists and is empty
InitManifest ==
    /\ CrawlIdle
    /\ IngestIdle
    /\ ToolsIdle
    /\ \E files \in {EmptyMap, (MANIFEST_PATH :> <<>>)} : ManifestStart(files)

SpecManifest == InitManifest /\ [][AppendAny]_vars

\* --------------------------------------------------------------------------
\* scripts/cleanup_manifest.py
\* --------------------------------------------------------------------------
\* str.splitlines: cuts at U+2028 as well as at the newline, no final empty line
str_splitlines(text) ==
    LET pieces == SplitLines(text, {LF, LS}) IN
    IF pieces[Len(pieces)] = <<>> THEN SubSeq(pieces, 1, Len(pieces) - 1) ELSE pieces

load_raw_lines(files, path) ==
    IF path \notin DOMAIN files THEN <<>> ELSE str_splitlines(files[path])

parse_entries(lines) == LoadLines(lines, TRUE)

compute_dedup_key_without_pdf(rec) ==
    <<Get(rec, "kind"), Get(rec, "case"), Get(rec, "txt"), Get(rec, "source_url")>>

compute_dedup_key(rec) ==
    <<Get(rec, "kind"), Get(rec, "case"), Get(rec, "pdf"), Get(rec, "txt"),
      Get(rec, "source_url")>>

expected_kinds == {Str(<<"local_file">>), Str(<<"url_fetch">>), Str(<<"test_record">>)}

\* line 116-122: PDF -> the cases seen with it
pdf_to_cases(recs) ==
    LET both(r) == Truthy(Get(r, "pdf")) /\ Truthy(Get(r, "case")) IN
    [p \in {Get(recs[i], "pdf").s : i \in {j \in DOMAIN recs : both(recs[j])}} |->
        {Get(recs[i], "case").s :
            i \in {j \in DOMAIN recs : both(recs[j]) /\ Get(recs[j], "pdf").s = p}}]

drop_unless_cases_seen(rec, cases_by_pdf) ==
    /\ Get(rec, "case") = Null
    /\ Get(rec, "kind") \notin expected_kinds
    /\ Truthy(Get(rec, "pdf"))
    /\ Get(rec, "pdf").s \notin DOMAIN cases_by_pdf

should_drop_legacy_kind_case_anomaly(rec, cases_by_pdf) ==
    IF Get(rec, "case") # Null THEN FALSE
    ELSE IF Get(rec, "kind") \in expected_kinds THEN FALSE
    ELSE IF ~Truthy(Get(rec, "pdf")) THEN FALSE
    ELSE /\ Get(rec, "pdf").s \in DOMAIN cases_by_pdf
         /\ cases_by_pdf[Get(rec, "pdf").s] # {}

\* line 124-142: the loop over the entries, from entry i on
RECURSIVE CleanLoop(_, _, _, _)
CleanLoop(recs, i, seen_keys, out) ==
    IF i > Len(recs) THEN out
    ELSE LET rec == recs[i]
             key == compute_dedup_key(rec)
         IN
         IF should_drop_legacy_kind_case_anomaly(rec, pdf_to_cases(recs))
         THEN CleanLoop(recs, i + 1, seen_keys,
                        [out EXCEPT !.dropped_anomalies = @ + 1])
         ELSE IF key \in seen_keys
         THEN CleanLoop(recs, i + 1, seen_keys,
                        [out EXCEPT !.dropped_duplicates = @ + 1])
         ELSE CleanLoop(recs, i + 1, seen_keys \cup {key},
                        [out EXCEPT !.cleaned = Append(@, rec)])

\* the kept records are rebuilt from the five fields of the key
CleaningByKey(recs) ==
    LET out == CleanLoop(recs, 1, {},
                         [cleaned |-> <<>>, dropped_duplicates |-> 0,
                          dropped_anomalies |-> 0])
        rebuilt(r) == Rec(Get(r, "kind"), Get(r, "case"), Get(r, "pdf"), Get(r, "txt"),
                          Get(r, "source_url"))
    IN [out EXCEPT !.cleaned = [i \in DOMAIN out.cleaned |-> rebuilt(out.cleaned[i])]]

Cleaning(recs) ==
    CleanLoop(recs, 1, {},
              [cleaned |-> <<>>, dropped_duplicates |-> 0, dropped_anomalies |-> 0])

\* the cleanup goes on to the backup whatever dry_run is
writes_anyway(dry_run) == "computed"

\* line 148-150: a dry run returns after the counts are printed
after_counts(dry_run) == IF dry_run THEN "done" ELSE "computed"

\* line 104-150: load, parse, clean, count; return early on an empty
\* manifest, on a manifest without entries, and on a dry run
CleanupCompute ==
    /\ cl_pc = "idle"
    /\ \E dry_run \in BOOLEAN :
        /\ cl_dry_run' = dry_run
        /\ LET raw_lines == load_raw_lines(fs, MANIFEST_PATH)
               parsed == parse_entries(raw_lines)
               out == Cleaning(parsed)
           IN
           /\ cl_before' = IF MANIFEST_PATH \in DOMAIN fs THEN fs[MANIFEST_PATH] ELSE <<>>
           /\ IF raw_lines = <<>> \/ parsed = <<>>
              THEN /\ cl_pc' = "done"
                   /\ UNCHANGED <<entries, cleaned, dropped_duplicates, dropped_anomalies>>
              ELSE /\ entries' = parsed
                   /\ cleaned' = out.cleaned
                   /\ dropped_duplicates' = out.dropped_duplicates
                   /\ dropped_anomalies' = out.dropped_anomalies
                   /\ cl_pc' = after_counts(dry_run)
    /\ UNCHANGED <<fs, appended, cl_written>>

\* line 153-154: MANIFEST_PATH.replace(backup_path)
CleanupBackup ==
    /\ cl_pc = "computed"
    /\ fs' = [p \in (DOMAIN fs \ {MANIFEST_PATH}) \cup {backup_path} |->
                IF p = backup_path THEN fs[MANIFEST_PATH] ELSE fs[p]]
    /\ cl_pc' = "replaced"
    /\ UNCHANGED <<appended, cl_before, entries, cleaned, dropped_duplicates,
                   dropped_anomalies, cl_written, cl_dry_run>>

\* line 157: MANIFEST_PATH.open("w")
CleanupOpen ==
    /\ cl_pc = "replaced"
    /\ fs' = [p \in DOMAIN fs \cup {MANIFEST_PATH} |->
                IF p = MANIFEST_PATH THEN <<>> ELSE fs[p]]
    /\ cl_pc' = "writing"
    /\ cl_written' = 0
    /\ UNCHANGED <<appended, cl_before, entries, cleaned, dropped_duplicates,
                   dropped_anomalies, cl_dry_run>>

\* line 158-159: one record written
CleanupWrite ==
    /\ cl_pc = "writing"
    /\ cl_written < Len(cleaned)
    /\ fs' = AppendText(fs, MANIFEST_PATH, written_line(cleaned[cl_written + 1]))
    /\ cl_written' = cl_written + 1
    /\ UNCHANGED <<appended, cl_pc, cl_before, entries, cleaned, dropped_duplicates,
                   dropped_anomalies, cl_dry_run>>

\* line 157-161: the file is closed, cleanup_manifest returns
CleanupClose ==
    /\ cl_pc = "writing"
    /\ cl_written = Len(cleaned)
    /\ cl_pc' = "done"
    /\ UNCHANGED <<fs, appended, cl_before, entries, cleaned, dropped_duplicates,
                   dropped_anomalies, cl_written, cl_dry_run>>

\* the process is interrupted (killed, power loss) between two statements
CleanupCrash ==
    /\ cl_pc \in {"computed", "replaced", "writing"}
    /\ cl_pc' = "crashed"
    /\ UNCHANGED <<fs, appended, cl_before, entries, cleaned, dropped_duplicates,
                   dropped_anomalies, cl_written, cl_dry_run>>

cleanup_manifest ==
    /\ \/ CleanupCompute
       \/ CleanupBackup
       \/ CleanupOpen
       \/ CleanupWrite
       \/ CleanupClose
       \/ CleanupCrash
    /\ UNCHANGED <<crawlVars, ingestVars, toolVars>>

\* the manifests cleanup_manifest may find: up to MaxRecords records, written
\* as append_record writes them
CleanupRecords ==
    {Rec(kind, case, pdf, Str(<<"a.txt">>), Null) :
        kind \in {Str(<<"local_file">>), Str(<<"case_x">>)},
        case \in {Null, Str(<<"case_x">>), Str(<<>>)},
        pdf \in {Null, Str(<<"a.pdf">>)}}

RECURSIVE FileOf(_)
FileOf(recs) ==
    IF recs = <<>> THEN <<>> ELSE written_line(Head(recs)) \o FileOf(Tail(recs))

InitCleanup ==
    /\ CrawlIdle
    /\ IngestIdle
    /\ ToolsIdle
    /\ \E recs \in UNION {[1..n -> CleanupRecords] : n \in 0..MaxRecords} :
        ManifestStart((MANIFEST_PATH :> FileOf(recs)))

SpecCleanup == InitCleanup /\ [][cleanup_manifest]_vars

\* --------------------------------------------------------------------------
\* Ingest and index: vault_core/ingest/pipeline.py, vault_core/ocr.py,
\* vault_core/search/indexer.py, scripts/index_docs.py, vault_cli.py
\* --------------------------------------------------------------------------
\* A file name and a URL are sequences of tokens: "/" and the suffixes
\* ".pdf" and ".txt" are tokens of their own.
SLASH == "/"

INPUT_DIR == <<"input", SLASH>>

OCR_DIR == <<"ocr", SLASH>>

\* the PDFs of the model, each the sequence of the texts of its pages
Pdfs == {<<"v1">>, <<"v2", "v1">>}

LocalSources == {<<"a", ".pdf">>, <<"b", ".pdf">>}

UrlSources == {<<"https:", SLASH, SLASH, "h", SLASH, "a", ".pdf">>,
               <<"https:", SLASH, SLASH, "h", SLASH, "b", SLASH>>}

scheme_as_written(source) ==
    IF source = <<>> THEN ""
    ELSE IF Head(source) = "http:" THEN "http"
    ELSE IF Head(source) = "https:" THEN "https"
    ELSE IF Head(source) = "ftp:" THEN "ftp"
    ELSE Head(source)

\* urlparse(s).scheme: the characters before the first colon, in lower case
scheme_of(source) ==
    IF source = <<>> THEN ""
    ELSE IF Head(source) \in {"http:", "HTTP:"} THEN "http"
    ELSE IF Head(source) = "https:" THEN "https"
    ELSE IF Head(source) = "ftp:" THEN "ftp"
    ELSE ""

\* pipeline.py line 17-20
IsUrl(source) == scheme_of(source) \in {"http", "https"}

\* pipeline.py line 65-68: a relative path is taken under INPUT_DIR
local_path(source) ==
    IF source # <<>> /\ Head(source) = SLASH THEN source ELSE INPUT_DIR \o source

RECURSIVE RStripSlash(_)
RStripSlash(s) ==
    IF s # <<>> /\ s[Len(s)] = SLASH THEN RStripSlash(SubSeq(s, 1, Len(s) - 1)) ELSE s

\* s.split("/")[-1]
LastSegment(s) ==
    LET slashes == {i \in DOMAIN s : s[i] = SLASH}
        last == IF slashes = {} THEN 0
                ELSE CHOOSE i \in slashes : \A k \in slashes : k <= i
    IN SubSeq(s, last + 1, Len(s))

\* the file name fetch_pdf and cmd_ingest_url derive from the URL
url_filename(url) ==
    LET last == LastSegment(RStripSlash(url))
        filename == IF last = <<>> THEN <<"download", ".pdf">> ELSE last
    IN IF filename[Len(filename)] # ".pdf" THEN Append(filename, ".pdf") ELSE filename

\* Path.stem of a path of the model
Stem(path) ==
    LET name == LastSegment(path) IN
    IF Len(name) > 1 /\ name[Len(name)] \in {".pdf", ".txt"}
    THEN SubSeq(name, 1, Len(name) - 1) ELSE name

txt_path_of(pdf_path) == OCR_DIR \o Stem(pdf_path) \o <<".txt">>

PageHeader(i) == IF i = 1 THEN "PAGE 1 =====" ELSE "PAGE 2 ====="

\* ocr.py line 42-49: the chunks of the pages, joined by newlines
RECURSIVE ocr_chunks(_, _)
ocr_chunks(pages, i) ==
    IF i > Len(pages) THEN <<>>
    ELSE (IF i = 1 THEN <<>> ELSE <<LF>>)
         \o <<PageHeader(i), LF, pages[i], LF>> \o ocr_chunks(pages, i + 1)

WriteFile(dir, path, content) ==
    [p \in DOMAIN dir \cup {path} |-> IF p = path THEN content ELSE dir[p]]

\* pdf_to_text: the OCR directory after the call
pdf_to_text(pdf_path, overwrite) ==
    LET out_txt == txt_path_of(pdf_path) IN
    IF out_txt \in DOMAIN ocr_dir /\ ~overwrite THEN ocr_dir
    ELSE WriteFile(ocr_dir, out_txt, ocr_chunks(input_dir[pdf_path], 1))

build_provenance_record(pdf_path, txt_path, source_url, kind) ==
    (<<"kind">> :> Str(<<kind>>)) @@ (<<"pdf">> :> Str(pdf_path))
    @@ (<<"txt">> :> Str(txt_path))
    @@ (<<"source_url">> :> IF source_url = <<>> THEN Null ELSE Str(source_url))

IndexDoc(txt_path, dir) ==
    [doc_id |-> Stem(txt_path), source_file |-> txt_path, content |-> dir[txt_path]]

\* writer.add_document
add_document(ix, doc) == ix (+) SetToBag({doc})

add_without_delete(ix, doc) == ix (+) SetToBag({doc})

\* writer.update_document: doc_id is the unique field of the schema, the
\* documents that have the new document's doc_id are deleted first
update_document(ix, doc) ==
    LET kept == {d \in DOMAIN ix : d.doc_id # doc.doc_id} IN
    [d \in kept |-> ix[d]] (+) SetToBag({doc})

\* index_docs.create_index: a new index of every *.txt of the OCR directory
create_index(dir) == SetToBag({IndexDoc(p, dir) : p \in DOMAIN dir})

cleanupVars == <<cl_pc, cl_before, entries, cleaned, dropped_duplicates,
                 dropped_anomalies, cl_written, cl_dry_run>>

\* a PDF is put into input/, or the one there is replaced
PutInput ==
    /\ ing_pc = "idle"
    /\ \E name \in LocalSources, pdf \in Pdfs :
        input_dir' = WriteFile(input_dir, INPUT_DIR \o name, pdf)
    /\ UNCHANGED <<ocr_dir, index, cli_manifest, ing_pc, ing, started, ingested,
                   fs, appended, cleanupVars>>

\* the locals of a command: `status` is the answer to its download, `result`
\* how the last command ended ("ok", or the exception that left it)
NoIngest == [source |-> <<>>, pdf_path |-> <<>>, kind |-> NONE, source_url |-> <<>>,
             text |-> <<>>, case |-> <<>>, status |-> "none", result |-> "none"]

Finished(source, result) == [NoIngest EXCEPT !.source = source, !.result = result]

\* what a download may meet: no answer at all, or a final status
DownloadAnswers == {"transport_error", "200", "300", "404", "500"}

\* requests.get raises on a transport error, raise_for_status on 4xx and 5xx
download_raises(status) == status \in {"transport_error", "404", "500"}

exists_anyway(dir, path) == TRUE

\* Path.exists
path_exists(dir, path) == path \in DOMAIN dir

\* pipeline.py line 57-72: the PDF is downloaded or found in input/, or the
\* call ends with the exception of fetch_pdf or with FileNotFoundError
IngestResolveOf(sources) ==
    /\ ing_pc = "idle"
    /\ started < MaxIngests
    /\ \E source \in sources :
        IF IsUrl(source)
        THEN \E status \in DownloadAnswers, body \in Pdfs :
                IF download_raises(status)
                THEN /\ ing' = [Finished(source, "RequestException") EXCEPT
                                    !.status = status]
                     /\ ing_pc' = "idle"
                     /\ UNCHANGED input_dir
                ELSE /\ input_dir' = WriteFile(input_dir,
                                               INPUT_DIR \o url_filename(source), body)
                     /\ ing' = [NoIngest EXCEPT !.source = source,
                                                !.pdf_path = INPUT_DIR \o url_filename(source),
                                                !.kind = "url_fetch",
                                                !.source_url = source,
                                                !.status = status]
                     /\ ing_pc' = "ingest_resolved"
        ELSE IF ~path_exists(input_dir, local_path(source))
        THEN /\ ing' = Finished(source, "FileNotFoundError")
             /\ ing_pc' = "idle"
             /\ UNCHANGED input_dir
        ELSE /\ UNCHANGED input_dir
             /\ ing' = [NoIngest EXCEPT !.source = source,
                                        !.pdf_path = local_path(source),
                                        !.kind = "local_file"]
             /\ ing_pc' = "ingest_resolved"
    /\ started' = started + 1
    /\ UNCHANGED <<ocr_dir, index, cli_manifest, ingested, fs, appended, cleanupVars>>

IngestResolve == IngestResolveOf(LocalSources \cup UrlSources)

\* pipeline.py line 75-78: pdf_to_text(pdf_path, txt_path), the second
\* argument is the overwrite flag and a path is true
IngestOcr ==
    /\ ing_pc = "ingest_resolved"
    /\ IF ing.pdf_path \notin DOMAIN input_dir
       THEN /\ ing' = Finished(ing.source, "FileNotFoundError")
            /\ ing_pc' = "idle"
            /\ UNCHANGED ocr_dir
       ELSE /\ ocr_dir' = pdf_to_text(ing.pdf_path, TRUE)
            /\ ing' = [ing EXCEPT !.text = ocr_chunks(input_dir[ing.pdf_path], 1)]
            /\ ing_pc' = "ingest_ocr"
    /\ UNCHANGED <<input_dir, index, cli_manifest, started, ingested,
                   fs, appended, cleanupVars>>

\* pipeline.py line 81-87
IngestAppend ==
    /\ ing_pc = "ingest_ocr"
    /\ LET prov == build_provenance_record(ing.pdf_path, txt_path_of(ing.pdf_path),
                                           ing.source_url, ing.kind)
       IN /\ fs' = AppendText(fs, MANIFEST_PATH, written_line(prov))
          /\ appended' = Append(appended, prov)
    /\ ing_pc' = "ingest_appended"
    /\ UNCHANGED <<input_dir, ocr_dir, index, cli_manifest, ing, started, ingested,
                   cleanupVars>>

\* pipeline.py line 90-92, indexer.py line 38-55
update_index_for_file ==
    /\ ing_pc = "ingest_appended"
    /\ LET txt_path == txt_path_of(ing.pdf_path)
           doc_id == Stem(txt_path)
           before == IF doc_id \in DOMAIN ingested THEN ingested[doc_id]
                     ELSE [count |-> 0, first |-> ing.text, text |-> ing.text]
       IN /\ index' = update_document(index, IndexDoc(txt_path, ocr_dir))
          /\ ingested' = WriteFile(ingested, doc_id,
                                   [before EXCEPT !.count = @ + 1, !.text = ing.text])
    /\ ing_pc' = "idle"
    /\ ing' = Finished(ing.source, "ok")
    /\ UNCHANGED <<input_dir, ocr_dir, cli_manifest, started, fs, appended, cleanupVars>>

\* the process is interrupted between two statements of a command
IngestCrash ==
    /\ ing_pc # "idle"
    /\ ing_pc' = "idle"
    /\ ing' = Finished(ing.source, "interrupted")
    /\ UNCHANGED <<input_dir, ocr_dir, index, cli_manifest, started, ingested,
                   fs, appended, cleanupVars>>

ingest_source ==
    /\ \/ PutInput
       \/ IngestResolve
       \/ IngestOcr
       \/ IngestAppend
       \/ update_index_for_file
       \/ IngestCrash
    /\ UNCHANGED <<crawlVars, toolVars>>

\* vault_cli.py line 83-96: the PDF is downloaded into input/
CliDownload ==
    /\ ing_pc = "idle"
    /\ started < MaxIngests
    /\ \E url \in UrlSources, body \in Pdfs :
        /\ input_dir' = WriteFile(input_dir, INPUT_DIR \o url_filename(url), body)
        /\ ing' = [NoIngest EXCEPT !.source = url,
                                   !.pdf_path = INPUT_DIR \o url_filename(url),
                                   !.kind = "url",
                                   !.source_url = url]
    /\ ing_pc' = "cli_saved"
    /\ started' = started + 1
    /\ UNCHANGED <<ocr_dir, index, cli_manifest, ingested, fs, appended, cleanupVars>>

\* vault_cli.py line 24-31: the manifest of manifest.json, or {} when there
\* is no file or the file cannot be read or parsed: the Exception is logged
\* and swallowed
load_manifest(read_ok) == IF read_ok THEN cli_manifest ELSE EmptyMap

\* vault_cli.py line 43-47, 98-112: the record is put into the manifest as
\* loaded under its doc_id, and the manifest is saved
upsert_record ==
    /\ ing_pc = "cli_saved"
    /\ \E read_ok \in BOOLEAN :
        cli_manifest' = WriteFile(load_manifest(read_ok), Stem(ing.pdf_path),
                                  [doc_id |-> Stem(ing.pdf_path),
                                   source_file |-> ing.pdf_path,
                                   ingest_type |-> ing.kind,
                                   source_url |-> ing.source_url])
    /\ ing_pc' = "cli_upserted"
    /\ UNCHANGED <<input_dir, ocr_dir, index, ing, started, ingested,
                   fs, appended, cleanupVars>>

\* vault_cli.py line 116, scripts/extract_text.py
CliExtractText ==
    /\ ing_pc = "cli_upserted"
    /\ ocr_dir' = pdf_to_text(ing.pdf_path, TRUE)
    /\ ing_pc' = "cli_ocr"
    /\ UNCHANGED <<input_dir, index, cli_manifest, ing, started, ingested,
                   fs, appended, cleanupVars>>

\* vault_cli.py line 117, scripts/index_docs.py
CliIndexDocs ==
    /\ ing_pc = "cli_ocr"
    /\ index' = create_index(ocr_dir)
    /\ ing_pc' = "idle"
    /\ ing' = Finished(ing.source, "ok")
    /\ UNCHANGED <<input_dir, ocr_dir, cli_manifest, started, ingested,
                   fs, appended, cleanupVars>>

cmd_ingest_url == CliDownload \/ upsert_record \/ CliExtractText \/ CliIndexDocs

\* vault_cli.py line 145-151
cmd_reindex ==
    /\ ing_pc = "idle"
    /\ index' = create_index(ocr_dir)
    /\ UNCHANGED <<input_dir, ocr_dir, cli_manifest, ing_pc, ing, started, ingested,
                   fs, appended, cleanupVars>>

\* Path.unlink: the file is gone; a missing file raises FileNotFoundError,
\* which cmd_delete_doc logs
Unlink(dir, path) == [p \in DOMAIN dir \ {path} |-> dir[p]]

\* vault_cli.py line 236: pdf_path.with_suffix(".txt"), the PDF's own
\* directory and stem with the suffix .txt
with_suffix_txt(pdf_path) ==
    (IF pdf_path[Len(pdf_path)] \in {".pdf", ".txt"}
     THEN SubSeq(pdf_path, 1, Len(pdf_path) - 1) ELSE pdf_path) \o <<".txt">>

\* the doc_ids a command may name
DocIds == {Stem(url_filename(url)) : url \in UrlSources}

\* vault_cli.py line 207-253: the record is popped and the manifest saved,
\* the source file and the text beside it are unlinked unless --keep-files,
\* the index is rebuilt if args.reindex
cmd_delete_doc ==
    /\ ing_pc = "idle"
    /\ \E doc_id \in DocIds, keep_files \in BOOLEAN, reindex \in BOOLEAN,
          read_ok \in BOOLEAN :
        LET manifest == load_manifest(read_ok) IN
        IF doc_id \notin DOMAIN manifest
        THEN /\ ing' = [Finished(doc_id, "no record") EXCEPT !.kind = "delete-doc"]
             /\ UNCHANGED <<cli_manifest, input_dir, ocr_dir, index>>
        ELSE LET pdf_path == manifest[doc_id].source_file
                 ocr_txt == with_suffix_txt(pdf_path)
             IN
             /\ cli_manifest' = Unlink(manifest, doc_id)
             /\ input_dir' = IF keep_files THEN input_dir
                             ELSE Unlink(Unlink(input_dir, pdf_path), ocr_txt)
             /\ ocr_dir' = IF keep_files THEN ocr_dir ELSE Unlink(ocr_dir, ocr_txt)
             /\ index' = IF reindex THEN create_index(ocr_dir') ELSE index
             /\ ing' = [Finished(doc_id, "deleted") EXCEPT
                          !.kind = "delete-doc",
                          !.pdf_path = pdf_path,
                          !.status = IF keep_files THEN "keep_files" ELSE "files",
                          !.case = IF reindex THEN <<"reindex">> ELSE <<>>]
    /\ UNCHANGED <<ing_pc, started, ingested, fs, appended, cleanupVars>>

vault_cli ==
    /\ cmd_ingest_url \/ cmd_reindex \/ cmd_delete_doc
    /\ UNCHANGED <<crawlVars, toolVars>>

\* --------------------------------------------------------------------------
\* wsgi.py: the web ingest of a URL of any content type
\* --------------------------------------------------------------------------
TAB == "TAB"
BLANK == " "
COMMA == ","

WebUrls == {<<"https:", SLASH, SLASH, "H", SLASH, "b", SLASH>>,
            <<"https:", SLASH, SLASH, "h", SLASH, "c", ".csv">>,
            <<"https:", SLASH, SLASH, "h", SLASH, "a", ".pdf">>}

DOCX_TYPE == "application/vnd.openxmlformats-officedocument.wordprocessingml.document"

\* the Content-Type headers of the model, "" for a missing header or a
\* failed HEAD request
ContentTypes == {"", "application/pdf", DOCX_TYPE, "text/csv", "text/html",
                 "text/plain", "image/png"}

WebCases == {<<>>, <<"case_x">>}

\* the body of a response: markup, text, cell separators and blanks
Tags == {"<p>", "</p>"}

WebBodies == {<<"<p>", BLANK, "v1", COMMA, BLANK, "v2", "</p>", "<p>", "</p>">>}

\* str.lower of the characters of the model's URLs
Lower(t) == IF t = "H" THEN "h" ELSE t

\* re.sub(r"[^a-z0-9]+", "_", base): every run of other characters becomes
\* one underscore (".csv" and ".pdf" stand for a dot and three letters)
RECURSIVE Underscored(_, _)
Underscored(base, in_run) ==
    IF base = <<>> THEN <<>>
    ELSE IF Head(base) = SLASH
         THEN (IF in_run THEN <<>> ELSE <<"_">>) \o Underscored(Tail(base), TRUE)
    ELSE IF Head(base) \in {".csv", ".pdf"}
         THEN (IF in_run THEN <<>> ELSE <<"_">>)
              \o <<IF Head(base) = ".csv" THEN "csv" ELSE "pdf">>
              \o Underscored(Tail(base), FALSE)
    ELSE <<Head(base)>> \o Underscored(Tail(base), FALSE)

RECURSIVE StripOf(_, _)
StripOf(s, chars) ==
    IF s # <<>> /\ s[1] \in chars THEN StripOf(Tail(s), chars)
    ELSE IF s # <<>> /\ s[Len(s)] \in chars THEN StripOf(SubSeq(s, 1, Len(s) - 1), chars)
    ELSE s

\* wsgi.py line 171-176: netloc and path follow the scheme and the two slashes
_slug_from_url(url) ==
    LET base == [i \in 1..(Len(url) - 3) |-> Lower(url[i + 3])]
        slug == StripOf(Underscored(base, FALSE), {"_"})
    IN IF slug = <<>> THEN <<"web_doc">> ELSE slug

web_txt_path(url) == OCR_DIR \o _slug_from_url(url) \o <<".txt">>

RECURSIVE Join(_, _)
Join(pieces, sep) ==
    IF pieces = <<>> THEN <<>>
    ELSE IF Len(pieces) = 1 THEN pieces[1]
    ELSE pieces[1] \o <<sep>> \o Join(Tail(pieces), sep)

StrippedPieces(text, seps) ==
    LET pieces == SplitLines(text, seps) IN
    [i \in DOMAIN pieces |-> StripOf(pieces[i], {BLANK, LF})]

\* soup.get_text("\n", strip=True), and the paragraphs of a DOCX document:
\* the stripped texts between the tags, the empty ones left out
get_text(content) ==
    Join(SelectSeq(StrippedPieces(content, Tags), LAMBDA p : p # <<>>), LF)

_extract_docx_text(content) == get_text(content)

\* wsgi.py line 228-234: the stripped cells of a row joined by tabs, the
\* rows by newlines
_extract_csv_text(text) ==
    LET rows == SplitLines(text, {LF}) IN
    Join([i \in DOMAIN rows |-> Join(StrippedPieces(rows[i], {COMMA}), TAB)], LF)

EndsWith(url, suffixes) == url # <<>> /\ Lower(url[Len(url)]) \in suffixes

\* wsgi.py line 266: the check made on the Content-Type of the HEAD response
is_pdf(url, ctype) == ctype = "application/pdf" \/ EndsWith(url, {".pdf"})

\* wsgi.py line 277-307: the branch taken for the fetched body
web_kind(url, ctype) ==
    IF ctype = DOCX_TYPE \/ EndsWith(url, {".docx"}) THEN "web_docx"
    ELSE IF ctype = "text/csv" \/ EndsWith(url, {".csv"}) THEN "web_csv"
    ELSE IF ctype = "text/html" \/ EndsWith(url, {".htm", ".html", SLASH}) THEN "web_html"
    ELSE IF ctype \in {"text/csv", "text/html", "text/plain"} THEN "web_text"
    ELSE "unsupported"

web_text(kind, body) ==
    IF kind = "web_docx" THEN _extract_docx_text(body)
    ELSE IF kind = "web_csv" THEN _extract_csv_text(body)
    ELSE IF kind = "web_html" THEN get_text(body)
    ELSE body

\* wsgi.py line 240-307 up to the extraction of the text.  A PDF is handed
\* to ingest_source with a case keyword that ingest_source (pipeline.py line
\* 43) does not take.
WebFetch ==
    /\ ing_pc = "idle"
    /\ started < MaxIngests
    /\ \E url \in WebUrls, head_ctype \in ContentTypes, status \in DownloadAnswers,
          body \in WebBodies, case \in WebCases :
       \E get_ctype \in (IF head_ctype = "" THEN ContentTypes ELSE {head_ctype}) :
        LET ctype == IF head_ctype = "" THEN get_ctype ELSE head_ctype
            kind == web_kind(url, ctype)
        IN IF is_pdf(url, head_ctype)
           THEN /\ ing' = Finished(url, "TypeError")
                /\ ing_pc' = "idle"
           ELSE IF download_raises(status)
           THEN /\ ing' = [Finished(url, "RequestException") EXCEPT !.status = status]
                /\ ing_pc' = "idle"
           ELSE IF kind = "unsupported"
           THEN /\ ing' = [Finished(url, "ValueError") EXCEPT !.status = status]
                /\ ing_pc' = "idle"
           ELSE /\ ing' = [NoIngest EXCEPT !.source = url,
                                           !.kind = kind,
                                           !.source_url = url,
                                           !.text = web_text(kind, body),
                                           !.case = case,
                                           !.status = status]
                /\ ing_pc' = "web_extracted"
    /\ started' = started + 1
    /\ UNCHANGED <<input_dir, ocr_dir, index, cli_manifest, ingested, fs, appended,
                   cleanupVars>>

\* wsgi.py line 189-193
WebWriteTxt ==
    /\ ing_pc = "web_extracted"
    /\ ocr_dir' = WriteFile(ocr_dir, web_txt_path(ing.source_url), ing.text)
    /\ ing_pc' = "web_written"
    /\ UNCHANGED <<input_dir, index, cli_manifest, ing, started, ingested, fs, appended,
                   cleanupVars>>

web_entry(kind, txt_path, url, case) ==
    (<<"kind">> :> Str(<<kind>>)) @@ (<<"pdf">> :> Null)
    @@ (<<"txt">> :> Str(txt_path)) @@ (<<"source_url">> :> Str(url))
    @@ (IF case # <<>> THEN <<"case">> :> Str(case) ELSE EmptyMap)

\* wsgi.py line 195-211: the entry is appended and the call returns
_write_txt_and_manifest ==
    /\ ing_pc = "web_written"
    /\ LET entry == web_entry(ing.kind, web_txt_path(ing.source_url), ing.source_url,
                              ing.case)
       IN /\ fs' = AppendText(fs, MANIFEST_PATH, written_line(entry))
          /\ appended' = Append(appended, entry)
    /\ ing_pc' = "idle"
    /\ ing' = Finished(ing.source, "ok")
    /\ UNCHANGED <<input_dir, ocr_dir, index, cli_manifest, started, ingested, cleanupVars>>

ingest_url_web ==
    /\ WebFetch \/ WebWriteTxt \/ _write_txt_and_manifest
    /\ UNCHANGED <<crawlVars, toolVars>>

InitIngest ==
    /\ CrawlIdle
    /\ ManifestStart(EmptyMap)
    /\ IngestIdle
    /\ ToolsIdle

SpecIngest == InitIngest /\ [][ingest_source]_vars

SpecVault == InitIngest /\ [][ingest_source \/ vault_cli]_vars

SpecVaultCli == InitIngest /\ [][vault_cli]_vars

SpecWeb == InitIngest /\ [][ingest_source \/ ingest_url_web]_vars

\* The manifests a scan may find: no file, or up to MaxLines lines, each of
\* them a record as append_record writes it, a malformed line, a line of
\* JSON that is not an object, or a blank line.
MaxLines == 3

ScanRecords ==
    {Rec(Str(<<"test_record">>), Null, Str(<<"x.pdf">>), Str(<<"example.txt">>), url) :
        url \in {Null, Str(<<"u", LS>>)}}

OtherLines == {<<>>, <<"{", QUOTE, "k">>, json_value(Null)}

ScanLines ==
    {[text |-> json_dumps(r), recs |-> <<r>>] : r \in ScanRecords}
    \cup {[text |-> t, recs |-> <<>>] : t \in OtherLines}

RECURSIVE TextOf(_)
TextOf(lines) ==
    IF lines = <<>> THEN <<>> ELSE Head(lines).text \o <<LF>> \o TextOf(Tail(lines))

RECURSIVE RecordsOf(_)
RecordsOf(lines) ==
    IF lines = <<>> THEN <<>> ELSE Head(lines).recs \o RecordsOf(Tail(lines))

InitScan ==
    /\ CrawlIdle
    /\ IngestIdle
    /\ ToolsIdle
    /\ \/ fs = EmptyMap /\ appended = <<>>
       \/ \E lines \in UNION {[1..n -> ScanLines] : n \in 0..MaxLines} :
            /\ fs = (MANIFEST_PATH :> TextOf(lines))
            /\ appended = RecordsOf(lines)
    /\ cl_pc = "idle"
    /\ cl_before = <<>>
    /\ entries = <<>>
    /\ cleaned = <<>>
    /\ dropped_duplicates = 0
    /\ dropped_anomalies = 0
    /\ cl_written = 0
    /\ cl_dry_run = FALSE

\* cleanup_manifest.py line 104-106: the scan that opens main
ScanManifest == CleanupCompute /\ UNCHANGED <<crawlVars, ingestVars, toolVars>>

SpecScan == InitScan /\ [][ScanManifest]_vars

\* manifests whose records have a kind of the web ingest or a kind that is
\* the name of a case
KindRecords ==
    {Rec(kind, case, pdf, Str(<<"a.txt">>), Null) :
        kind \in {Str(<<"web_html">>), Str(<<"case_x">>)},
        case \in {Null, Str(<<"case_x">>)},
        pdf \in {Null, Str(<<"a.pdf">>)}}

InitCleanupKinds ==
    /\ CrawlIdle
    /\ IngestIdle
    /\ ToolsIdle
    /\ \E recs \in UNION {[1..n -> KindRecords] : n \in 0..MaxRecords} :
        ManifestStart((MANIFEST_PATH :> FileOf(recs)))

SpecCleanupKinds == InitCleanupKinds /\ [][cleanup_manifest]_vars

\* manifests whose records carry a key cleanup does not read, or a source_url
\* with the line separator U+2028, as append_record writes them
FieldRecords ==
    {Rec(kind, case, Str(<<"a.pdf">>), Str(<<"a.txt">>), more.url) @@ more.note :
        kind \in {Str(<<"test_record">>), Str(<<"case_x">>)},
        case \in {Null, Str(<<"case_x">>)},
        more \in {[url |-> Null, note |-> EmptyMap],
                  [url |-> Null, note |-> (<<"note">> :> Str(<<"n">>))],
                  [url |-> Str(<<"u", LS>>), note |-> EmptyMap]}}

InitCleanupFields ==
    /\ CrawlIdle
    /\ IngestIdle
    /\ ToolsIdle
    /\ \E recs \in UNION {[1..n -> FieldRecords] : n \in 0..MaxRecords} :
        /\ fs = (MANIFEST_PATH :> FileOf(recs))
        /\ appended = recs
    /\ cl_pc = "idle"
    /\ cl_before = <<>>
    /\ entries = <<>>
    /\ cleaned = <<>>
    /\ dropped_duplicates = 0
    /\ dropped_anomalies = 0
    /\ cl_written = 0
    /\ cl_dry_run = FALSE

SpecCleanupFields == InitCleanupFields /\ [][cleanup_manifest]_vars

\* a second cleanup_manifest(dry_run=False), run from its first line to its
\* last on the manifest a first one wrote (line 104-161)
cleanup_again ==
    /\ cl_pc = "done"
    /\ ~cl_dry_run
    /\ entries # <<>>
    /\ LET raw_lines == load_raw_lines(fs, MANIFEST_PATH)
           parsed == parse_entries(raw_lines)
           out == Cleaning(parsed)
       IN
       IF raw_lines = <<>> \/ parsed = <<>>
       THEN /\ entries' = <<>>
            /\ cleaned' = <<>>
            /\ dropped_duplicates' = 0
            /\ dropped_anomalies' = 0
            /\ UNCHANGED <<fs, cl_written>>
       ELSE /\ entries' = parsed
            /\ cleaned' = out.cleaned
            /\ dropped_duplicates' = out.dropped_duplicates
            /\ dropped_anomalies' = out.dropped_anomalies
            /\ fs' = (MANIFEST_PATH :> FileOf(out.cleaned))
                     @@ (backup_path :> fs[MANIFEST_PATH])
            /\ cl_written' = Len(out.cleaned)
    /\ cl_pc' = "again"
    /\ UNCHANGED <<appended, cl_before, cl_dry_run>>
    /\ UNCHANGED <<crawlVars, ingestVars, toolVars>>

\* a line as json.dumps writes it by default: U+2028 as the escape  
EscapedLine ==
    <<"{">> \o json_string(<<"source_url">>) \o <<":", QUOTE, "u", BSLASH, "u2028", QUOTE, "}">>

\* the lines of the manifests a first cleanup finds
TwiceLines ==
    {json_dumps(Rec(kind, case, Str(<<"a.pdf">>), Str(<<"a.txt">>), Null)) :
        kind \in {Str(<<"local_file">>), Str(<<"case_x">>)},
        case \in {Null, Str(<<"case_x">>)}}
    \cup {EscapedLine}

RECURSIVE JoinLines(_)
JoinLines(lines) ==
    IF lines = <<>> THEN <<>> ELSE Head(lines) \o <<LF>> \o JoinLines(Tail(lines))

InitCleanupTwice ==
    /\ CrawlIdle
    /\ IngestIdle
    /\ ToolsIdle
    /\ \E lines \in UNION {[1..n -> TwiceLines] : n \in 0..MaxRecords} :
        ManifestStart((MANIFEST_PATH :> JoinLines(lines)))

SpecCleanupTwice == InitCleanupTwice /\ [][cleanup_manifest \/ cleanup_again]_vars

\* --------------------------------------------------------------------------
\* scripts/bulk_ingest.py
\* --------------------------------------------------------------------------
MaxList == 3

\* the lines of a list file: two sources, a comment and a blank line
ListLines == {<<"a", ".pdf", LF>>, <<"https:", SLASH, SLASH, "h", SLASH, "a", ".pdf", LF>>,
              <<"#", "a", ".pdf", LF>>, <<LF>>}

\* line 22-25: the stripped line is a source unless it is empty or a comment
is_source(line) == Strip(line) # <<>> /\ Head(Strip(line)) # "#"

\* how a call of ingest_source ends: it returns, or it raises
\* FileNotFoundError or another Exception
IngestOutcomes == {"ok", "FileNotFoundError", "Exception"}

breaks_always(stop_on_error) == TRUE

breaks_never(stop_on_error) == FALSE

\* line 70-71, 76-77: if args.stop_on_error: break
breaks_loop(stop_on_error) == stop_on_error

\* line 61-63: the generator yields the next source, total += 1; the loop
\* ends when the list file has no further source
BulkNext ==
    /\ bulk.pc = "loop"
    /\ LET rest == {i \in (bulk.pos + 1)..Len(bulk.lines) : is_source(bulk.lines[i])} IN
       IF rest = {}
       THEN bulk' = [bulk EXCEPT !.pc = "summary", !.pos = Len(bulk.lines)]
       ELSE LET i == CHOOSE i \in rest : \A k \in rest : i <= k IN
            bulk' = [bulk EXCEPT !.pc = "ingesting",
                                 !.pos = i,
                                 !.total = @ + 1,
                                 !.attempted = Append(@, Strip(bulk.lines[i]))]

\* line 65-80: the call of ingest_source and the counter of its outcome
BulkIngest ==
    /\ bulk.pc = "ingesting"
    /\ \E outcome \in IngestOutcomes :
        IF outcome = "ok"
        THEN bulk' = [bulk EXCEPT !.pc = "loop",
                                  !.successes = @ + 1,
                                  !.outcomes = Append(@, outcome)]
        ELSE bulk' = [bulk EXCEPT !.pc = IF breaks_loop(bulk.stop_on_error)
                                         THEN "summary" ELSE "loop",
                                  !.failures = @ + 1,
                                  !.outcomes = Append(@, outcome)]

\* line 85-92: the summary and the exit status
BulkSummary ==
    /\ bulk.pc = "summary"
    /\ bulk' = [bulk EXCEPT !.pc = "exited",
                            !.exit_status = IF bulk.failures > 0 THEN 1 ELSE 0]

bulk_ingest ==
    /\ BulkNext \/ BulkIngest \/ BulkSummary
    /\ UNCHANGED <<crawlVars, manifestVars, ingestVars, search, threads, downloads>>

InitBulk ==
    /\ CrawlIdle
    /\ ManifestStart(EmptyMap)
    /\ IngestIdle
    /\ search = NoSearch
    /\ threads = NoThreads
    /\ downloads = <<>>
    /\ \E lines \in UNION {[1..n -> ListLines] : n \in 0..MaxList},
          stop_on_error \in BOOLEAN :
        bulk = [NoBulk EXCEPT !.pc = "loop", !.lines = lines,
                              !.stop_on_error = stop_on_error]

SpecBulk == InitBulk /\ [][bulk_ingest]_vars

\* --------------------------------------------------------------------------
\* vault_core/search_backend.py
\* --------------------------------------------------------------------------
MaxManifest == 2
MaxLimit == 2

\* the working directory of the process
CWD == <<SLASH, "r", SLASH>>

\* Path.resolve of a path without links and dots
resolve(path) == IF path # <<>> /\ Head(path) = SLASH THEN path ELSE CWD \o path

SearchDocs == {"a", "b"}

Ranking(f, n) ==
    [i \in 1..n |-> [doc_id |-> f[i],
                     source_file |-> CWD \o OCR_DIR \o <<f[i], ".txt">>,
                     score |-> n + 1 - i]]

\* the ranked hits of searcher.search(query, limit=None): documents of the
\* index, each once, with the scores of the engine in falling order
HitLists ==
    UNION {{Ranking(f, n) :
                f \in {g \in [1..n -> SearchDocs] : \A i, j \in 1..n : g[i] = g[j] => i = j}} :
           n \in 0..Cardinality(SearchDocs)}

\* the records of the manifest a search reads: the text of document a under
\* its relative path, the text of document b under its absolute path
SearchRecords ==
    {Rec(kind, case, Null, txt, Null) :
        kind \in {Str(<<"local_file">>), Str(<<"url_fetch">>)},
        case \in {Null, Str(<<>>), Str(<<"x">>)},
        txt \in {Str(OCR_DIR \o <<"a", ".txt">>), Str(CWD \o OCR_DIR \o <<"b", ".txt">>)}}

SearchFilters == [case : {Null, Str(<<>>), Str(<<"x">>)},
                  kind : {Null, Str(<<"local_file">>)}]

\* the first record of a path is kept
first_record_wins(records) ==
    LET usable == {i \in DOMAIN records : Truthy(Get(records[i], "txt"))}
        path(i) == resolve(Get(records[i], "txt").s)
    IN [p \in {path(i) : i \in usable} |->
            records[CHOOSE i \in usable :
                        path(i) = p /\ \A k \in usable : path(k) = p => i <= k]]

\* line 18-35: resolved txt path -> record, the last record of a path wins
build_manifest_index(records) ==
    LET usable == {i \in DOMAIN records : Truthy(Get(records[i], "txt"))}
        path(i) == resolve(Get(records[i], "txt").s)
    IN [p \in {path(i) : i \in usable} |->
            records[CHOOSE i \in usable :
                        path(i) = p /\ \A k \in usable : path(k) = p => k <= i]]

\* value or None
or_none(value) == IF Truthy(value) THEN value ELSE Null

never_fails(value, wanted) == FALSE

\* line 84-87: if case is not None and (hit_case or None) != case: continue
filter_fails(value, wanted) == wanted # Null /\ or_none(value) # wanted

\* line 66-114: the loop over the hits, from hit i on
RECURSIVE SearchLoop(_, _, _, _, _, _, _)
SearchLoop(hits, i, manifest_index, case, kind, limit, results_out) ==
    IF i > Len(hits) THEN results_out
    ELSE LET hit == hits[i]
             source_path == resolve(hit.source_file)
             known == source_path \in DOMAIN manifest_index
             hit_case == IF known THEN Get(manifest_index[source_path], "case") ELSE Null
             hit_kind == IF known THEN Get(manifest_index[source_path], "kind") ELSE Null
             out == Append(results_out, [doc_id |-> hit.doc_id,
                                         source |-> hit.source_file,
                                         score |-> hit.score,
                                         case |-> hit_case,
                                         kind |-> hit_kind])
         IN IF filter_fails(hit_case, case) \/ filter_fails(hit_kind, kind)
            THEN SearchLoop(hits, i + 1, manifest_index, case, kind, limit, results_out)
            ELSE IF Len(out) >= limit THEN out
            ELSE SearchLoop(hits, i + 1, manifest_index, case, kind, limit, out)

\* line 38-117: open_dir raises EmptyIndexError for a directory without an
\* index
run_search ==
    /\ search.pc = "called"
    /\ search.entry = "run_search"
    /\ IF ~search.index_exists
       THEN search' = [search EXCEPT !.pc = "returned", !.raised = "EmptyIndexError"]
       ELSE search' = [search EXCEPT
                        !.pc = "returned",
                        !.results = SearchLoop(search.hits, 1,
                                               build_manifest_index(search.manifest),
                                               search.case, search.kind, search.limit,
                                               <<>>)]
    /\ UNCHANGED <<crawlVars, manifestVars, ingestVars, bulk, threads, downloads>>

\* api/app.py line 26-30, 39-41: get_index turns the error of open_dir into
\* HTTPException(500)
app_search ==
    /\ search.pc = "called"
    /\ search.entry = "app_search"
    /\ IF ~search.index_exists
       THEN search' = [search EXCEPT !.pc = "returned", !.raised = "HTTPException"]
       ELSE search' = [search EXCEPT
                        !.pc = "returned",
                        !.results = SubSeq(search.hits, 1,
                                           IF Len(search.hits) < 10 THEN Len(search.hits)
                                           ELSE 10)]
    /\ UNCHANGED <<crawlVars, manifestVars, ingestVars, bulk, threads, downloads>>

\* indexer.py line 25-35: an index that is not there is created, empty
_get_or_create_index(exists, hits) ==
    IF ~exists THEN [created |-> TRUE, hits |-> <<>>]
    ELSE [created |-> FALSE, hits |-> hits]

\* indexer.py line 58-93, called by web/api.py api_search with its default
\* limit
search_index ==
    /\ search.pc = "called"
    /\ search.entry = "search_index"
    /\ LET ix == _get_or_create_index(search.index_exists, search.hits) IN
       search' = [search EXCEPT
                    !.pc = "returned",
                    !.created = ix.created,
                    !.results = SubSeq(ix.hits, 1,
                                       IF Len(ix.hits) < 10 THEN Len(ix.hits) ELSE 10)]
    /\ UNCHANGED <<crawlVars, manifestVars, ingestVars, bulk, threads, downloads>>

InitSearch ==
    /\ CrawlIdle
    /\ ManifestStart(EmptyMap)
    /\ IngestIdle
    /\ bulk = NoBulk
    /\ threads = NoThreads
    /\ downloads = <<>>
    /\ \E hits \in HitLists, filters \in SearchFilters, limit \in 0..MaxLimit,
          manifest \in UNION {[1..n -> SearchRecords] : n \in 0..MaxManifest} :
        search = [NoSearch EXCEPT !.pc = "called", !.entry = "run_search",
                                  !.hits = hits, !.manifest = manifest,
                                  !.case = filters.case, !.kind = filters.kind,
                                  !.limit = limit]

SpecSearch == InitSearch /\ [][run_search]_vars

\* the entry points of a search
SearchEntries == {"run_search", "app_search", "search_index"}

\* a search by any entry point, with and without an index in INDEX_DIR; an
\* index that is not there has no hits to give
InitSearchOpen ==
    /\ CrawlIdle
    /\ ManifestStart(EmptyMap)
    /\ IngestIdle
    /\ bulk = NoBulk
    /\ threads = NoThreads
    /\ downloads = <<>>
    /\ \E entry \in SearchEntries, index_exists \in BOOLEAN, hits \in HitLists,
          filters \in SearchFilters, limit \in 1..MaxLimit,
          manifest \in UNION {[1..n -> SearchRecords] : n \in 0..1} :
        search = [NoSearch EXCEPT !.pc = "called", !.entry = entry,
                                  !.index_exists = index_exists,
                                  !.hits = IF index_exists THEN hits ELSE <<>>,
                                  !.manifest = manifest,
                                  !.case = filters.case, !.kind = filters.kind,
                                  !.limit = limit]

SpecSearchOpen == InitSearchOpen /\ [][run_search \/ app_search \/ search_index]_vars

\* Sources of every class: relative and absolute local paths, URLs with the
\* scheme in either case, and a string with another scheme; the PDFs that
\* exist are any of three.
ClassifySources ==
    {<<"a", ".pdf">>, <<"d", ".pdf">>,
     <<SLASH, "tmp", SLASH, "c", ".pdf">>,
     <<"https:", SLASH, SLASH, "h", SLASH, "a", ".pdf">>,
     <<"HTTP:", SLASH, SLASH, "h", SLASH, "b", ".pdf">>,
     <<"ftp:", SLASH, SLASH, "h", SLASH, "e", ".pdf">>}

ClassifyFiles ==
    {INPUT_DIR \o <<"a", ".pdf">>,
     <<SLASH, "tmp", SLASH, "c", ".pdf">>,
     INPUT_DIR \o <<"ftp:", SLASH, SLASH, "h", SLASH, "e", ".pdf">>}

InitClassify ==
    /\ CrawlIdle
    /\ ManifestStart(EmptyMap)
    /\ ToolsIdle
    /\ \E present \in SUBSET ClassifyFiles : input_dir = [p \in present |-> <<"v1">>]
    /\ ocr_dir = EmptyMap
    /\ index = EmptyMap
    /\ cli_manifest = EmptyMap
    /\ ing_pc = "idle"
    /\ ing = NoIngest
    /\ started = 0
    /\ ingested = EmptyMap

ingest_any_source ==
    /\ \/ IngestResolveOf(ClassifySources)
       \/ IngestOcr
       \/ IngestAppend
       \/ update_index_for_file
    /\ UNCHANGED <<crawlVars, toolVars>>

SpecClassify == InitClassify /\ [][ingest_any_source]_vars

InitCrawl ==
    /\ \E seeds \in SeedSeqs, c \in Configs({1}), w \in WebSet :
        CrawlStart(seeds, c, w, AnyServers)
    /\ ManifestStart(EmptyMap)
    /\ IngestIdle
    /\ ToolsIdle

\* Crawls of two seeds over servers that answer every page with HTML and
\* every robots.txt with the Disallow: /private/ rules, with the clock
\* ticking between the statements.
TickingServers ==
    [robots |-> {"rules"}, html |-> {TRUE}, raises |-> {FALSE}, jitter |-> MaxJitter,
     silent |-> {FALSE}]

ThrottleConfigs == [max_depth : {1}, same_domain_only : BOOLEAN, delay_seconds : {2}]

ThrottleSeeds == {<<UrlRoot, UrlRoot>>, <<UrlOther, UrlRoot>>}

InitThrottle ==
    /\ \E seeds \in ThrottleSeeds, c \in ThrottleConfigs :
        CrawlStart(seeds, c, WebCyclic, TickingServers)
    /\ ManifestStart(EmptyMap)
    /\ IngestIdle
    /\ ToolsIdle

\* --------------------------------------------------------------------------
\* Concurrent callers.  Nothing in the repository starts a thread, and none of
\* DomainThrottler, append_record and update_index_for_file takes a lock of
\* its own; the specifications below run MaxThreads callers of one of them
\* against shared state, one statement at a time, which is what the
\* interpreter allows between two of their statements.
\* --------------------------------------------------------------------------
MaxThreads == 2

MaxClock == 3

Tids == 1..MaxThreads

NoCall == [pc |-> "off", op |-> NONE, url |-> NONE, now |-> 0, last |-> <<>>,
           stamp |-> 0, record |-> NONE, text |-> NONE, raised |-> NONE]

\* time passes between any two statements
Tick ==
    /\ clock < MaxClock
    /\ clock' = clock + 1
    /\ UNCHANGED <<seed_urls, cfg, web, net, queue, visited, parsers, last_request_time,
                   crawl_pc, fetchLog, docLog, expandLog, errLog>>
    /\ UNCHANGED <<manifestVars, ingestVars, toolVars>>

\* vault_core/crawler.py, DomainThrottler.wait line 71-72: the clock and the
\* map are read
wait_read(t) ==
    /\ threads[t].op = "fetch_url"
    /\ threads[t].pc = "called"
    /\ LET k == ThrottleKey(threads[t].url)
           last == IF k \in DOMAIN last_request_time THEN <<last_request_time[k]>> ELSE <<>>
       IN threads' = [threads EXCEPT ![t].pc = "read", ![t].now = clock, ![t].last = last]
    /\ UNCHANGED last_request_time

\* line 73-77: time.sleep returns once the remainder of the delay has passed
wait_sleep(t) ==
    /\ threads[t].op = "fetch_url"
    /\ threads[t].pc = "read"
    /\ LET last == threads[t].last
           sleep_for == IF last # <<>> /\ threads[t].now - last[1] < cfg.delay_seconds
                        THEN cfg.delay_seconds - (threads[t].now - last[1])
                        ELSE 0
       IN clock >= threads[t].now + sleep_for
    /\ threads' = [threads EXCEPT ![t].pc = "slept"]
    /\ UNCHANGED last_request_time

\* line 78, and the request of fetch_url line 85 that follows it
wait_stamp(t) ==
    /\ threads[t].op = "fetch_url"
    /\ threads[t].pc = "slept"
    /\ last_request_time' =
         [k \in DOMAIN last_request_time \cup {ThrottleKey(threads[t].url)} |->
            IF k = ThrottleKey(threads[t].url) THEN clock ELSE last_request_time[k]]
    /\ threads' = [threads EXCEPT ![t].pc = "requested", ![t].stamp = clock]

\* fetch_url line 81-85, called by several threads with one DomainThrottler
fetch_url_concurrently ==
    /\ \E t \in DOMAIN threads :
        \/ wait_read(t)
        \/ wait_sleep(t)
        \/ wait_stamp(t)
    /\ UNCHANGED <<seed_urls, cfg, web, net, queue, visited, parsers, clock,
                   crawl_pc, fetchLog, docLog, expandLog, errLog>>
    /\ UNCHANGED <<manifestVars, ingestVars, bulk, search, downloads>>

ThreadUrls == {UrlRoot, UrlPage, UrlOther}

InitThrottleThreads ==
    /\ \E c \in [max_depth : {1}, same_domain_only : {TRUE}, delay_seconds : {1, 2}] :
        CrawlStart(<<>>, c, WebChain, AnyServers)
    /\ ManifestStart(EmptyMap)
    /\ IngestIdle
    /\ bulk = NoBulk
    /\ search = NoSearch
    /\ downloads = <<>>
    /\ threads \in [Tids -> {[NoCall EXCEPT !.pc = "called", !.op = "fetch_url", !.url = u] :
                              u \in ThreadUrls}]

SpecThrottleThreads == InitThrottleThreads /\ [][fetch_url_concurrently \/ Tick]_vars

\* --------------------------------------------------------------------------
\* vault_core/manifest.py, append_record called by several threads.  The file
\* is opened in append mode (line 62) and the line is handed to the file
\* object (line 63), which passes it on to the operating system when the
\* block closes the file: in one write, or in more than one when the line
\* does not fit the buffer or a write is cut short.  Each write lands at the
\* end of the file as it then is.
\* --------------------------------------------------------------------------
\* line 62-63: the file is open and the line is in the buffer of the file object
append_open(t) ==
    /\ threads[t].op = "append_record"
    /\ threads[t].pc = "called"
    /\ threads' = [threads EXCEPT ![t].pc = "opened",
                                  ![t].text = written_line(threads[t].record)]
    /\ fs' = AppendText(fs, MANIFEST_PATH, <<>>)
    /\ UNCHANGED appended

\* the number of characters the first write of the flush may carry
first_write(text) == 1..Len(text)

\* the end of the with block: the first write of the flush
append_flush(t) ==
    /\ threads[t].op = "append_record"
    /\ threads[t].pc = "opened"
    /\ \E n \in first_write(threads[t].text) :
        LET text == threads[t].text IN
        /\ fs' = AppendText(fs, MANIFEST_PATH, SubSeq(text, 1, n))
        /\ IF n = Len(text)
           THEN /\ threads' = [threads EXCEPT ![t].pc = "closed", ![t].text = <<>>]
                /\ appended' = Append(appended, threads[t].record)
           ELSE /\ threads' = [threads EXCEPT ![t].pc = "flushing",
                                              ![t].text = SubSeq(text, n + 1, Len(text))]
                /\ UNCHANGED appended

\* the write of what the first one left, and the close
append_close(t) ==
    /\ threads[t].op = "append_record"
    /\ threads[t].pc = "flushing"
    /\ fs' = AppendText(fs, MANIFEST_PATH, threads[t].text)
    /\ threads' = [threads EXCEPT ![t].pc = "closed", ![t].text = <<>>]
    /\ appended' = Append(appended, threads[t].record)

append_record_concurrently ==
    /\ \E t \in DOMAIN threads : append_open(t) \/ append_flush(t) \/ append_close(t)
    /\ UNCHANGED <<cl_pc, cl_before, entries, cleaned, dropped_duplicates,
                   dropped_anomalies, cl_written, cl_dry_run>>
    /\ UNCHANGED <<crawlVars, ingestVars, bulk, search, downloads>>

ThreadRecords ==
    {Rec(Str(<<"pdf">>), Null, Str(<<n>>), Null, Null) : n \in {"a", "b", "c"}}

InitAppendThreads ==
    /\ CrawlIdle
    /\ IngestIdle
    /\ bulk = NoBulk
    /\ search = NoSearch
    /\ downloads = <<>>
    /\ \E files \in {EmptyMap, (MANIFEST_PATH :> <<>>)} : ManifestStart(files)
    /\ threads \in [Tids -> {[NoCall EXCEPT !.pc = "called", !.op = "append_record",
                                             !.record = r] : r \in ThreadRecords}]

SpecAppendThreads == InitAppendThreads /\ [][append_record_concurrently]_vars

\* --------------------------------------------------------------------------
\* vault_core/ingest/pipeline.py, ingest_source called by several threads for
\* sources of one document identifier.  The index is the only shared object
\* with a lock: ix.writer() takes the write lock of the index directory and
\* raises LockError when another writer holds it.
\* --------------------------------------------------------------------------
ThreadPdf(t) ==
    IF IsUrl(threads[t].url) THEN INPUT_DIR \o url_filename(threads[t].url)
    ELSE local_path(threads[t].url)

\* pipeline.py line 57-72: a URL is downloaded into input/, a path must exist
thread_resolve(t) ==
    /\ threads[t].pc = "called"
    /\ IF IsUrl(threads[t].url)
       THEN \E body \in Pdfs :
            /\ input_dir' = WriteFile(input_dir, ThreadPdf(t), body)
            /\ threads' = [threads EXCEPT ![t].pc = "resolved"]
       ELSE /\ UNCHANGED input_dir
            /\ threads' = [threads EXCEPT
                 ![t].pc = IF path_exists(input_dir, ThreadPdf(t)) THEN "resolved" ELSE "done",
                 ![t].raised = IF path_exists(input_dir, ThreadPdf(t)) THEN NONE
                               ELSE "FileNotFoundError"]
    /\ UNCHANGED <<ocr_dir, index, fs, appended>>

\* ocr.py line 42-49: the pages are read and turned into text, and write_text
\* opens the text file for writing, which empties it
thread_ocr_open(t) ==
    /\ threads[t].pc = "resolved"
    /\ threads' = [threads EXCEPT ![t].pc = "ocr_open",
                                  ![t].text = ocr_chunks(input_dir[ThreadPdf(t)], 1)]
    /\ ocr_dir' = WriteFile(ocr_dir, txt_path_of(ThreadPdf(t)), <<>>)
    /\ UNCHANGED <<input_dir, index, fs, appended>>

\* ocr.py line 49: the text is written and the file closed; pipeline.py line
\* 81-87: the record is appended
thread_ocr_write(t) ==
    /\ threads[t].pc = "ocr_open"
    /\ ocr_dir' = WriteFile(ocr_dir, txt_path_of(ThreadPdf(t)), threads[t].text)
    /\ LET prov == build_provenance_record(ThreadPdf(t), txt_path_of(ThreadPdf(t)),
                        IF IsUrl(threads[t].url) THEN threads[t].url ELSE <<>>,
                        IF IsUrl(threads[t].url) THEN "url_fetch" ELSE "local_file")
       IN /\ fs' = AppendText(fs, MANIFEST_PATH, written_line(prov))
          /\ appended' = Append(appended, prov)
    /\ threads' = [threads EXCEPT ![t].pc = "appended"]
    /\ UNCHANGED <<input_dir, index>>

\* indexer.py line 42-46: the text is read before the writer is asked for
thread_index_read(t) ==
    /\ threads[t].pc = "appended"
    /\ threads' = [threads EXCEPT ![t].pc = "read",
                                  ![t].text = ocr_dir[txt_path_of(ThreadPdf(t))]]
    /\ UNCHANGED <<input_dir, ocr_dir, index, fs, appended>>

\* indexer.py line 48: ix.writer()
thread_index_lock(t) ==
    /\ threads[t].pc = "read"
    /\ IF \E o \in DOMAIN threads : threads[o].pc = "locked"
       THEN threads' = [threads EXCEPT ![t].pc = "done", ![t].raised = "LockError"]
       ELSE threads' = [threads EXCEPT ![t].pc = "locked"]
    /\ UNCHANGED <<input_dir, ocr_dir, index, fs, appended>>

\* indexer.py line 48-53: update_document and the commit at the end of the block
thread_index_commit(t) ==
    /\ threads[t].pc = "locked"
    /\ index' = update_document(index,
                    [doc_id |-> Stem(txt_path_of(ThreadPdf(t))),
                     source_file |-> txt_path_of(ThreadPdf(t)),
                     content |-> threads[t].text])
    /\ threads' = [threads EXCEPT ![t].pc = "done"]
    /\ UNCHANGED <<input_dir, ocr_dir, fs, appended>>

ingest_source_concurrently ==
    /\ \E t \in DOMAIN threads :
        /\ threads[t].op = "ingest_source"
        /\ \/ thread_resolve(t)
           \/ thread_ocr_open(t)
           \/ thread_ocr_write(t)
           \/ thread_index_read(t)
           \/ thread_index_lock(t)
           \/ thread_index_commit(t)
    /\ UNCHANGED <<cli_manifest, ing_pc, ing, started, ingested, cleanupVars>>
    /\ UNCHANGED <<crawlVars, bulk, search, downloads>>

\* two ways to name the document a: the file in input/ and a URL of it
ThreadSources == {<<"a", ".pdf">>, <<"https:", SLASH, SLASH, "h", SLASH, "a", ".pdf">>}

InitIngestThreads ==
    /\ CrawlIdle
    /\ ManifestStart(EmptyMap)
    /\ bulk = NoBulk
    /\ search = NoSearch
    /\ downloads = <<>>
    /\ \E pages \in Pdfs : input_dir = (INPUT_DIR \o <<"a", ".pdf">> :> pages)
    /\ ocr_dir = EmptyMap
    /\ index = EmptyMap
    /\ cli_manifest = EmptyMap
    /\ ing_pc = "idle"
    /\ ing = NoIngest
    /\ started = 0
    /\ ingested = EmptyMap
    /\ threads \in [Tids -> {[NoCall EXCEPT !.pc = "called", !.op = "ingest_source",
                                             !.url = s] : s \in ThreadSources}]

SpecIngestThreads == InitIngestThreads /\ [][ingest_source_concurrently]_vars

\* --------------------------------------------------------------------------
\* Servers that may never answer.  fetch_url passes timeout=DEFAULT_TIMEOUT
\* to requests.get (line 85), so a silent page request ends as a fetch of
\* nothing usable.  RobotsCache.can_fetch calls RobotFileParser.read (line
\* 47), which opens the URL without a timeout: the call returns only when the
\* server answers or the connection breaks.
\* --------------------------------------------------------------------------
\* line 167-173, 38-47: the popped URL is marked visited and the robots.txt of
\* its base, not cached yet, is requested from a server that stays silent
RobotsSilent ==
    /\ crawl_pc = "loop"
    /\ queue # <<>>
    /\ ~AlreadyVisited(Head(queue)[1])
    /\ Base(Head(queue)[1]) \notin DOMAIN parsers
    /\ TRUE \in net.silent
    /\ queue' = Tail(queue)
    /\ visited' = visited \cup {Head(queue)[1]}
    /\ crawl_pc' = "robots_read"
    /\ UNCHANGED <<seed_urls, cfg, web, net, parsers, last_request_time, clock,
                   fetchLog, docLog, expandLog, errLog>>

crawl_silent_servers ==
    /\ PopVisited \/ PopDisallowed \/ PopFetch \/ CrawlReturn \/ RobotsSilent
    /\ UNCHANGED <<manifestVars, ingestVars, toolVars>>

SilentServers ==
    [robots |-> {"rules"}, html |-> BOOLEAN, raises |-> {FALSE}, jitter |-> 0,
     silent |-> BOOLEAN]

InitSilent ==
    /\ \E seeds \in SeedSeqs, c \in Configs({1}) :
        CrawlStart(seeds, c, WebChain, SilentServers)
    /\ ManifestStart(EmptyMap)
    /\ IngestIdle
    /\ ToolsIdle

\* the loop keeps running: it takes its next step whenever it has one
SpecSilent == InitSilent /\ [][crawl_silent_servers]_vars /\ WF_vars(crawl_silent_servers)

\* --------------------------------------------------------------------------
\* The three fetchers of the repository and the file name each derives from
\* the URL: vault_core/ingest/fetch.py (fetch_pdf, the one ingest_source
\* calls), vault_core/ingest/__init__.py (fetch_pdf) and scripts/fetch.py
\* (safe_name).  A URL is https://h followed by up to MaxPath characters; "a"
\* stands for a letter, ".pdf" for those four characters.
\* --------------------------------------------------------------------------
MaxPath == 3

UrlChars == {SLASH, "a", ".", ".pdf", "?", BSLASH}

FetchUrls ==
    {<<"https:", SLASH, SLASH, "h">> \o rest :
        rest \in UNION {[1..n -> UrlChars] : n \in 0..MaxPath}}

\* urlparse(url).path: from the first slash after the netloc to the query
url_path(url) ==
    LET rest == SubSeq(url, 4, Len(url))
        marks == {i \in DOMAIN rest : rest[i] = "?"}
        stop == IF marks = {} THEN Len(rest) + 1
                ELSE CHOOSE i \in marks : \A k \in marks : i <= k
        slashes == {i \in 1..(stop - 1) : rest[i] = SLASH}
    IN IF slashes = {} THEN <<>>
       ELSE SubSeq(rest, CHOOSE i \in slashes : \A k \in slashes : i <= k, stop - 1)

\* Path(path).name: the last component; pathlib drops empty components and
\* "." components, and keeps ".."
path_name(path) ==
    LET pieces == SplitLines(path, {SLASH})
        kept == SelectSeq(pieces, LAMBDA c : c # <<>> /\ c # <<".">>)
    IN IF kept = <<>> THEN <<>> ELSE kept[Len(kept)]

\* ingest/__init__.py line 23-26
init_filename(url) ==
    IF path_name(url_path(url)) = <<>> THEN <<"download", ".pdf">>
    ELSE path_name(url_path(url))

\* re.search(r"\.[A-Za-z0-9]{2,5}$", name): n letters and digits have been
\* seen from the end of the name
RECURSIVE HasExtension(_, _)
HasExtension(name, n) ==
    IF name = <<>> THEN FALSE
    ELSE LET c == name[Len(name)]
             front == SubSeq(name, 1, Len(name) - 1)
         IN IF c = "." THEN n \in 2..5
            ELSE IF c = ".pdf" THEN n + 3 \in 2..5
            ELSE IF c = "a" THEN HasExtension(front, n + 1)
            ELSE IF c = "download" THEN HasExtension(front, n + 8)
            ELSE FALSE

\* re.sub(r"[^A-Za-z0-9._-]", "_", name)
re_sub_unsafe(name) ==
    [i \in DOMAIN name |-> IF name[i] \in {"a", ".", ".pdf", "download", ".bin"}
                           THEN name[i] ELSE "_"]

\* scripts/fetch.py line 7-12
safe_name(url) ==
    LET base == IF path_name(url_path(url)) = <<>> THEN <<"download">>
                ELSE path_name(url_path(url))
        name == IF HasExtension(base, 0) THEN base ELSE Append(base, ".bin")
    IN re_sub_unsafe(name)

Fetchers == {"vault_core.ingest.fetch", "vault_core.ingest", "scripts.fetch"}

derived_filename(fetcher, url) ==
    IF fetcher = "vault_core.ingest.fetch" THEN url_filename(url)
    ELSE IF fetcher = "vault_core.ingest" THEN init_filename(url)
    ELSE safe_name(url)

\* fetch.py line 40-45, __init__.py line 26-37, scripts/fetch.py line 20-23:
\* the path is INPUT_DIR / name and the body of the answer is written to it.
\* Opening INPUT_DIR/.. for writing fails: it is a directory.
fetch_to_input ==
    /\ ing_pc = "idle"
    /\ started = 0
    /\ \E fetcher \in Fetchers, url \in FetchUrls, body \in Pdfs :
        LET name == derived_filename(fetcher, url) IN
        IF name = <<".", ".">>
        THEN /\ ing' = [Finished(url, "IsADirectoryError") EXCEPT
                            !.pdf_path = INPUT_DIR \o name, !.kind = fetcher]
             /\ UNCHANGED input_dir
        ELSE /\ ing' = [Finished(url, "ok") EXCEPT
                            !.pdf_path = INPUT_DIR \o name, !.kind = fetcher]
             /\ input_dir' = WriteFile(input_dir, INPUT_DIR \o name, body)
    /\ started' = 1
    /\ UNCHANGED <<ocr_dir, index, cli_manifest, ing_pc, ingested>>
    /\ UNCHANGED <<crawlVars, manifestVars, toolVars>>

SpecFetch == InitIngest /\ [][fetch_to_input]_vars

\* --------------------------------------------------------------------------
\* scripts/topic_harvest.py
\* --------------------------------------------------------------------------
\* line 40: ingest_source(url, case=None).  pipeline.ingest_source of this
\* version takes no case keyword, so the call raises TypeError before any
\* request is sent; the version this caller is written for takes it and
\* goes on as pipeline.py line 58-60 does.
CaseKeyword == {"accepted", "TypeError"}

\* line 28-43: the requests ingest_url sends for a URL the crawler has just
\* fetched: none when ingest_source raises at once; otherwise the
\* requests.get of fetch_pdf (pipeline.py 60, fetch.py 43), which starts
\* when fetch_url has returned and passes through no throttler.  Whatever
\* the call raises is caught and logged (line 42-43).
ingest_url(url, returned_at, keyword) ==
    IF keyword = "accepted"
    THEN <<[url |-> url, start |-> returned_at]>>
    ELSE <<>>

\* crawler.py line 171-184 under line 69-74: the crawler fetches the next
\* URL and hands it to _on_document, which calls ingest_url
harvest_visit ==
    /\ PopFetch
    /\ \E keyword \in CaseKeyword :
        downloads' = downloads \o ingest_url(Head(queue)[1], clock', keyword)
    /\ UNCHANGED <<manifestVars, ingestVars, bulk, search, threads>>

\* line 49-74: crawl_seed_urls over the seeds of the search, with
\* ingest_url as its callback
run_topic_harvest ==
    \/ harvest_visit
    \/ /\ PopVisited \/ PopDisallowed \/ CrawlReturn
       /\ UNCHANGED <<manifestVars, ingestVars, toolVars>>

\* line 67: CrawlConfig(max_depth=1, same_domain_only=True), the delay its
\* default of two seconds
HarvestConfig == [max_depth |-> 1, same_domain_only |-> TRUE, delay_seconds |-> 2]

InitHarvest ==
    /\ \E seeds \in ThrottleSeeds : CrawlStart(seeds, HarvestConfig, WebCyclic, TickingServers)
    /\ ManifestStart(EmptyMap)
    /\ IngestIdle
    /\ ToolsIdle

SpecHarvest == InitHarvest /\ [][run_topic_harvest]_vars

Init == InitCrawl

Next == crawl_seed_urls

Spec == Init /\ [][Next]_vars

\* The loop of crawl_seed_urls runs on its own thread of control: it always
\* takes its next iteration.
SpecCrawlFair == InitCrawl /\ [][crawl_seed_urls]_vars /\ WF_vars(crawl_seed_urls)

SpecThrottle == InitThrottle /\ [][crawl_seed_urls]_vars

\* the crawls whose callback may raise for any URL
RaisingServers ==
    [robots |-> {"rules"}, html |-> BOOLEAN, raises |-> BOOLEAN, jitter |-> 0,
     silent |-> {FALSE}]

InitCallback ==
    /\ \E seeds \in SeedSeqs, c \in Configs({1}), w \in WebSet :
        CrawlStart(seeds, c, w, RaisingServers)
    /\ ManifestStart(EmptyMap)
    /\ IngestIdle
    /\ ToolsIdle

SpecCallback == InitCallback /\ [][crawl_seed_urls]_vars

\* --------------------------------------------------------------------------
\* Claims about the crawler
\* --------------------------------------------------------------------------
Range(f) == {f[i] : i \in DOMAIN f}

FetchedUrls == {fetchLog[i].url : i \in DOMAIN fetchLog}

Occurrences(seq, x) == Cardinality({i \in DOMAIN seq : seq[i] = x})

\* the URLs within n link hops of the set S, by the links extract_links keeps
RECURSIVE WithinHops(_, _)
WithinHops(S, n) ==
    IF n <= 0 THEN S
    ELSE WithinHops(
            S \cup UNION {Range(extract_links(u, web[u], cfg.same_domain_only)) : u \in S},
            n - 1)

\* C2: no URL is fetched twice and none is handed to on_document twice.
C2_ProcessedOnce ==
    \A u \in URLS :
        /\ Cardinality({i \in DOMAIN fetchLog : fetchLog[i].url = u}) <= 1
        /\ Occurrences(docLog, u) <= 1

\* a URL that was fetched and handed to on_document is in the queue again,
\* put there by a page that was expanded before the URL was first popped
C2_Witness ==
    \E u \in URLS :
        /\ u \in FetchedUrls
        /\ Occurrences(docLog, u) = 1
        /\ \E i \in DOMAIN queue : queue[i][1] = u
        /\ \E v \in expandLog : v # u /\ u \in Range(web[v])

\* C3: a URL that the parsed robots.txt of its origin disallows is never
\* fetched, never handed to on_document and never expanded.
PolicyDisallows(u) ==
    /\ Base(u) \in DOMAIN parsers
    /\ \E d \in parsers[Base(u)].disallowed : IsPrefix(d, u.path)

C3_RobotsCompliance ==
    \A u \in URLS :
        PolicyDisallows(u) =>
            /\ u \notin FetchedUrls
            /\ u \notin Range(docLog)
            /\ u \notin expandLog

\* a disallowed seed and a disallowed discovered link, both popped
C3_Witness ==
    /\ crawl_pc = "done"
    /\ \E u \in visited :
        /\ PolicyDisallows(u)
        /\ \/ u \in Range(seed_urls)
           \/ \E v \in expandLog : u \in Range(web[v])
    /\ FetchedUrls # {}

\* C4 as claimed: consecutive requests to one origin (scheme and host) start
\* at least delay_seconds apart, and a fetch is delayed only by an earlier
\* fetch to its own origin.
ConsecutiveBy(key(_), i, j) ==
    /\ i < j
    /\ key(fetchLog[i]) = key(fetchLog[j])
    /\ \A k \in (i + 1)..(j - 1) : key(fetchLog[k]) # key(fetchLog[i])

OriginOf(f) == Base(f.url)

NetlocOf(f) == f.key

C4_ThrottlePerOrigin ==
    /\ \A i, j \in DOMAIN fetchLog :
        ConsecutiveBy(OriginOf, i, j) =>
            fetchLog[j].start - fetchLog[i].start >= cfg.delay_seconds
    /\ \A j \in DOMAIN fetchLog :
        fetchLog[j].slept > 0 =>
            \E i \in 1..(j - 1) : OriginOf(fetchLog[i]) = OriginOf(fetchLog[j])

\* C4 as amended: the throttle stamps (the time wait records just before the
\* request is issued) of consecutive fetches to one netloc are at least
\* delay_seconds apart, and a fetch sleeps only for an earlier fetch to its
\* own netloc stamped less than delay_seconds before.
C4_ThrottlePerNetloc ==
    /\ \A i, j \in DOMAIN fetchLog :
        ConsecutiveBy(NetlocOf, i, j) =>
            fetchLog[j].stamp - fetchLog[i].stamp >= cfg.delay_seconds
    /\ \A j \in DOMAIN fetchLog :
        fetchLog[j].slept > 0 =>
            \E i \in 1..(j - 1) :
                /\ NetlocOf(fetchLog[i]) = NetlocOf(fetchLog[j])
                /\ fetchLog[j].now - fetchLog[i].stamp < cfg.delay_seconds

\* one fetch slept for its netloc, another found the delay already elapsed
C4_Witness ==
    /\ \E j \in DOMAIN fetchLog : fetchLog[j].slept > 0
    /\ \E i, j \in DOMAIN fetchLog :
        /\ ConsecutiveBy(NetlocOf, i, j)
        /\ fetchLog[j].slept = 0

\* --------------------------------------------------------------------------
\* Claims about the manifest
\* --------------------------------------------------------------------------
\* C5: after N appends to an empty manifest a scan yields exactly the N
\* appended records, in the order they were appended.
C5_ScanYieldsAppended == iter_records(fs) = appended

\* three records appended, among them texts with a newline, a quote, a
\* backslash and a U+2028
C5_Witness ==
    /\ Len(appended) = 3
    /\ \E i \in 1..3 : LF \in Range(Get(appended[i], "txt").s)
    /\ \E i \in 1..3 : Get(appended[i], "source_url") = Str(<<"u", LS>>)
    /\ appended[1] # appended[2]

\* --------------------------------------------------------------------------
\* Claims about cleanup_manifest
\* --------------------------------------------------------------------------
CleanupRan == cl_pc # "idle" /\ entries # <<>>

IdentityTuple(rec) ==
    <<Get(rec, "kind"), Get(rec, "case"), Get(rec, "txt"), Get(rec, "source_url")>>

IdentityWithPdf(rec) ==
    <<Get(rec, "kind"), Get(rec, "case"), Get(rec, "pdf"), Get(rec, "txt"),
      Get(rec, "source_url")>>

NonEmptyString(v) == v # Null /\ v # Str(<<>>)

UnexpectedKind(rec) ==
    Get(rec, "kind") \notin
        {Str(<<"local_file">>), Str(<<"url_fetch">>), Str(<<"test_record">>)}

\* entry j gives the PDF of entry i a case
GivesCase(j, i) ==
    /\ Get(entries[j], "pdf") = Get(entries[i], "pdf")
    /\ NonEmptyString(Get(entries[j], "case"))

LegacyAnomaly(i) ==
    /\ Get(entries[i], "case") = Null
    /\ UnexpectedKind(entries[i])
    /\ NonEmptyString(Get(entries[i], "pdf"))
    /\ \E j \in DOMAIN entries : GivesCase(j, i)

\* C8 as claimed: the cleaned list has exactly one record per distinct tuple
\* (kind, case, artifact_path, source_url) of the input, and the duplicates
\* reported as dropped are the input records minus the distinct tuples.
C8_OnePerIdentityTuple ==
    CleanupRan =>
        LET tuples == {IdentityTuple(entries[i]) : i \in DOMAIN entries} IN
        /\ \A t \in tuples :
            Cardinality({j \in DOMAIN cleaned : IdentityTuple(cleaned[j]) = t}) = 1
        /\ dropped_duplicates = Len(entries) - Cardinality(tuples)

\* C8 as amended: among the records that are not dropped as anomalies, the
\* cleaned list has exactly one record, the first, per distinct tuple
\* (kind, case, pdf, txt, source_url), and the duplicates reported as dropped
\* are those records minus their distinct tuples.
C8_OnePerTupleWithPdf ==
    CleanupRan =>
        LET regular == {i \in DOMAIN entries : ~LegacyAnomaly(i)}
            tuples == {IdentityWithPdf(entries[i]) : i \in regular}
            first(t) == CHOOSE i \in regular :
                            /\ IdentityWithPdf(entries[i]) = t
                            /\ \A k \in regular :
                                IdentityWithPdf(entries[k]) = t => i <= k
        IN
        /\ Len(cleaned) = Cardinality(tuples)
        /\ \A t \in tuples :
            \E j \in DOMAIN cleaned :
                /\ cleaned[j] = entries[first(t)]
                /\ \A k \in DOMAIN cleaned :
                    IdentityWithPdf(cleaned[k]) = t => k = j
        /\ \A j, k \in DOMAIN cleaned :
            j < k => \E a, b \in regular :
                        a < b /\ entries[a] = cleaned[j] /\ entries[b] = cleaned[k]
        /\ dropped_duplicates = Cardinality(regular) - Cardinality(tuples)

\* a finished cleanup that dropped a duplicate and an anomaly and wrote the
\* one record left
C8_Witness ==
    /\ cl_pc = "done"
    /\ dropped_duplicates >= 1
    /\ dropped_anomalies >= 1
    /\ fs[MANIFEST_PATH] = FileOf(cleaned)
    /\ fs[MANIFEST_PATH] # cl_before

\* C9 as claimed: a record with a null case and an unexpected kind is dropped
\* whenever another record has the same artifact_path (txt) and a non-null
\* case, and that other record is kept.
C9_DropsAnomalyByArtifact ==
    CleanupRan =>
        \A i, j \in DOMAIN entries :
            ( /\ Get(entries[i], "case") = Null
              /\ UnexpectedKind(entries[i])
              /\ Get(entries[j], "txt") = Get(entries[i], "txt")
              /\ Get(entries[j], "case") # Null )
            => /\ entries[i] \notin Range(cleaned)
               /\ entries[j] \in Range(cleaned)

\* C9 as amended: a record with a null case, an unexpected kind and a
\* non-empty pdf is dropped whenever another record has the same pdf and a
\* non-empty case, and that other record is kept, in either order.
C9_DropsAnomalyByPdf ==
    CleanupRan =>
        \A i, j \in DOMAIN entries :
            (LegacyAnomaly(i) /\ GivesCase(j, i))
            => /\ entries[i] \notin Range(cleaned)
               /\ entries[j] \in Range(cleaned)
               /\ dropped_anomalies >= 1

\* a finished cleanup of a manifest with an anomaly before and an anomaly
\* after the record that gives their pdf a case
C9_Witness ==
    /\ cl_pc = "done"
    /\ fs[MANIFEST_PATH] = FileOf(cleaned)
    /\ \E i, j, k \in DOMAIN entries :
        /\ i < j /\ j < k
        /\ LegacyAnomaly(i) /\ LegacyAnomaly(k)
        /\ GivesCase(j, i)
        /\ Get(entries[j], "kind") = Str(<<"local_file">>)
        /\ Get(entries[i], "txt") = Str(<<"a.txt">>)

\* C10 as claimed: from the moment cleanup starts, whatever step it is
\* interrupted at, the manifest path holds the complete pre-cleanup manifest
\* or the complete cleaned manifest.
C10_CleanupCrashSafe ==
    cl_pc # "idle" =>
        /\ MANIFEST_PATH \in DOMAIN fs
        /\ fs[MANIFEST_PATH] \in {cl_before, FileOf(cleaned)}

\* --------------------------------------------------------------------------
\* Claims about ingest and the index
\* --------------------------------------------------------------------------
\* C6 as claimed: in every reachable state, the states a crash leaves
\* included, every document of the index has a provenance record for its
\* artifact: a line of manifest.jsonl whose txt is the document's file, or
\* a record of manifest.json under its doc_id.
C6_IndexedHasProvenance ==
    LET records == iter_records(fs) IN
    \A d \in BagToSet(index) :
        \/ \E i \in DOMAIN records : Get(records[i], "txt") = Str(d.source_file)
        \/ d.doc_id \in DOMAIN cli_manifest

\* C7: once ingest_source has returned for a source, however many times, the
\* index has exactly one entry for the stem of its text artifact, and the
\* entry holds the text of the latest of these ingestions.
C7_ReingestKeepsOneEntry ==
    \A id \in DOMAIN ingested :
        LET docs == {d \in BagToSet(index) : d.doc_id = id} IN
        /\ Cardinality(docs) = 1
        /\ \A d \in docs : CopiesIn(d, index) = 1 /\ d.content = ingested[id].text

\* a source ingested twice or more, the later time with another text
C7_Witness ==
    /\ ing_pc = "idle"
    /\ \E id \in DOMAIN ingested :
        /\ ingested[id].count >= 2
        /\ ingested[id].text # ingested[id].first
        /\ \E d \in BagToSet(index) : d.doc_id = id

\* --------------------------------------------------------------------------
\* Claims about the crawler's error handling and depth
\* --------------------------------------------------------------------------
\* the parser of an origin whose robots.txt could not be fetched or decoded
UnreadPolicy(u) ==
    /\ Base(u) \in DOMAIN parsers
    /\ ~parsers[Base(u)].last_checked
    /\ ~parsers[Base(u)].allow_all
    /\ ~parsers[Base(u)].disallow_all

\* C11 as claimed: every URL popped from the queue whose origin's robots.txt
\* could not be fetched or parsed is allowed: it is fetched and handed to
\* on_document.
C11_UnreadRobotsAllows ==
    \A u \in visited :
        UnreadPolicy(u) => u \in FetchedUrls /\ u \in Range(docLog)

\* what lines 187-193 leave in the queue after the entry <<url, depth>> was
\* popped and its fetch gave HTML or not
QueueAfter(url, depth, is_html) ==
    Tail(queue) \o
        (IF is_html /\ depth < cfg.max_depth
         THEN Children(extract_links(url, web[url], cfg.same_domain_only), depth,
                       visited \cup {url})
         ELSE <<>>)

\* C12: an exception of on_document never ends the crawl; the URL it was
\* raised for stays visited and is expanded when it is an HTML page below
\* max_depth, and the step leaves the queue and the visited set exactly as a
\* step whose callback returns does.
C12_CallbackErrorContained ==
    /\ [](crawl_pc \in {"loop", "done"})
    /\ [](\A e \in errLog :
            /\ e.url \in visited
            /\ e.url \in Range(docLog)
            /\ (e.html /\ e.depth < cfg.max_depth) => e.url \in expandLog)
    /\ [][errLog' # errLog =>
            /\ visited' = visited \cup {Head(queue)[1]}
            /\ queue' = QueueAfter(Head(queue)[1], Head(queue)[2],
                                   fetchLog'[Len(fetchLog')].html)]_vars

\* a finished crawl in which the callback raised for an HTML page that was
\* then expanded, and a page found through it was fetched afterwards
C12_Witness ==
    /\ crawl_pc = "done"
    /\ \E e \in errLog :
        /\ e.html /\ e.depth < cfg.max_depth
        /\ e.url \in expandLog
        /\ \E i, j \in DOMAIN docLog :
            /\ i < j
            /\ docLog[i] = e.url
            /\ docLog[j] \in Range(web[e.url])
            /\ docLog[j] \notin Range(seed_urls)

\* C13: every queue entry has a depth in 0..max_depth, the entries of depth
\* 0 are seeds, a step appends entries only when the popped page gave HTML
\* and its depth is below max_depth, and then at depth + 1; with
\* max_depth = 0 only seeds are fetched.
C13_DepthWithinBound ==
    /\ [](\A i \in DOMAIN queue :
            /\ queue[i][2] \in 0..cfg.max_depth
            /\ queue[i][2] = 0 => queue[i][1] \in Range(seed_urls))
    /\ [](cfg.max_depth = 0 => FetchedUrls \subseteq Range(seed_urls))
    /\ [][(queue # <<>> /\ queue' # Tail(queue)) =>
            /\ Head(queue)[2] < cfg.max_depth
            /\ Len(fetchLog') = Len(fetchLog) + 1
            /\ fetchLog'[Len(fetchLog')].html
            /\ SubSeq(queue', 1, Len(queue) - 1) = Tail(queue)
            /\ \A i \in Len(queue)..Len(queue') : queue'[i][2] = Head(queue)[2] + 1]_vars

\* a crawl with max_depth 2 that has expanded a page of depth 1: its queue
\* holds a link at depth 2 behind an entry of depth 1
C13_Witness ==
    /\ cfg.max_depth = 2
    /\ expandLog # {}
    /\ \E i, j \in DOMAIN queue :
        /\ i < j
        /\ queue[i][2] = 1
        /\ queue[j][2] = 2
        /\ queue[j][1] \notin Range(seed_urls)

\* --------------------------------------------------------------------------
\* Claims about failing ingestions
\* --------------------------------------------------------------------------
IngestEffects == <<input_dir, ocr_dir, fs, index, cli_manifest>>

\* C17: a call of ingest_source for a local source whose path under input/
\* does not exist ends at once with FileNotFoundError: it changes no file,
\* appends no manifest record and leaves the index as it was.
C17_NotFoundBeforeEffects ==
    [][(/\ started' = started + 1
        /\ ~IsUrl(ing'.source)
        /\ (INPUT_DIR \o ing'.source) \notin DOMAIN input_dir)
       => /\ ing_pc' = "idle"
          /\ ing'.result = "FileNotFoundError"
          /\ UNCHANGED IngestEffects]_vars

\* a call for a missing local file has failed after an earlier call had
\* filled the manifest and the index
C17_Witness ==
    /\ ing_pc = "idle"
    /\ ing.result = "FileNotFoundError"
    /\ (INPUT_DIR \o ing.source) \notin DOMAIN input_dir
    /\ index # EmptyBag
    /\ MANIFEST_PATH \in DOMAIN fs

\* C18 as claimed: a call of ingest_source for a URL whose download meets a
\* transport error or a final status that is not 2xx ends at once with the
\* fetch error: no body is stored, no record appended, the index unchanged.
C18_FailedDownloadIngestsNothing ==
    [][(/\ started' = started + 1
        /\ IsUrl(ing'.source)
        /\ ing'.status # "200")
       => /\ ing_pc' = "idle"
          /\ ing'.result = "RequestException"
          /\ UNCHANGED IngestEffects]_vars

\* C14 as claimed: whenever an ingestion has returned successfully, by the
\* PDF pipeline or by the web ingest, every manifest record with a non-null
\* text artifact has an index entry whose doc_id is the stem of the artifact.
C14_RecordsAreIndexed ==
    (ing_pc = "idle" /\ ing.result = "ok") =>
        LET records == iter_records(fs) IN
        \A i \in DOMAIN records :
            Get(records[i], "txt") # Null =>
                \E d \in BagToSet(index) : d.doc_id = Stem(Get(records[i], "txt").s)

\* --------------------------------------------------------------------------
\* Claims about scans of manifests of any content
\* --------------------------------------------------------------------------
\* C15 as claimed: a scan of a manifest of well-formed, malformed and blank
\* lines yields exactly the well-formed records in file order, by
\* iter_records and by parse_entries alike, and a missing file yields the
\* empty scan.
C15_ScanYieldsWellFormed ==
    cl_pc # "idle" =>
        /\ entries = appended
        /\ iter_records(fs) = appended

\* the kind values of the manifest schema
KindEnum ==
    {Str(<<k>>) : k \in {"local_file", "url_fetch", "web_html", "web_docx", "web_csv",
                         "web_text", "test_record"}}

\* entry j has the source identity of entry i and a case
SharesIdentityWithCase(j, i) ==
    /\ j # i
    /\ \/ Get(entries[j], "pdf") = Get(entries[i], "pdf")
       \/ Get(entries[j], "txt") = Get(entries[i], "txt")
    /\ Get(entries[j], "case") # Null

\* C16 as claimed: a record that cleanup drops as an anomaly (it is in the
\* input and no record equal to it is kept) has a null case, a kind outside
\* the seven values of the schema, and a partner of the same source identity
\* with a non-null case; a record with a case or a kind of the schema is
\* never dropped as an anomaly.
C16_AnomalyOnlyOutsideEnum ==
    CleanupRan =>
        \A i \in DOMAIN entries :
            entries[i] \notin Range(cleaned) =>
                /\ Get(entries[i], "case") = Null
                /\ Get(entries[i], "kind") \notin KindEnum
                /\ \E j \in DOMAIN entries : SharesIdentityWithCase(j, i)

\* --------------------------------------------------------------------------
\* Claims about bulk_ingest
\* --------------------------------------------------------------------------
RECURSIVE ListedSources(_)
ListedSources(lines) ==
    IF lines = <<>> THEN <<>>
    ELSE (IF Head(lines)[1] \in {LF, "#"} THEN <<>>
          ELSE <<SubSeq(Head(lines), 1, Len(Head(lines)) - 1)>>)
         \o ListedSources(Tail(lines))

Failed(outcomes) == {i \in DOMAIN outcomes : outcomes[i] # "ok"}

BulkAttemptsAndExit ==
    /\ bulk.pc # "off" =>
        /\ bulk.attempted = SubSeq(ListedSources(bulk.lines), 1, Len(bulk.attempted))
        /\ bulk.total = Len(bulk.attempted)
        /\ bulk.failures = Cardinality(Failed(bulk.outcomes))
        /\ bulk.successes = Len(bulk.outcomes) - Cardinality(Failed(bulk.outcomes))
    /\ (bulk.pc \in {"summary", "exited"} /\ ~bulk.stop_on_error) =>
        bulk.attempted = ListedSources(bulk.lines)
    /\ bulk.pc = "exited" =>
        (bulk.exit_status # 0 <=> Failed(bulk.outcomes) # {})

\* C19 as claimed: a bulk ingest without fail-fast attempts every listed
\* source exactly once and in list order whatever failed before, its exit
\* status is non-zero exactly if an item failed, and in every state
\* processed = ok + failed.
C19_CountsAtEveryPoint ==
    /\ BulkAttemptsAndExit
    /\ bulk.total = bulk.successes + bulk.failures

\* C19 as amended: the same, with processed = ok + failed whenever no item
\* is being ingested (between the items and in the summary), and
\* processed = ok + failed + 1 while one is.
C19_CountsBetweenItems ==
    /\ BulkAttemptsAndExit
    /\ bulk.pc \in {"loop", "summary", "exited"} =>
        bulk.total = bulk.successes + bulk.failures
    /\ bulk.pc = "ingesting" => bulk.total = bulk.successes + bulk.failures + 1

\* a run without fail-fast has exited with status 1 after three items, the
\* first of which failed and the last of which succeeded
C19_Witness ==
    /\ bulk.pc = "exited"
    /\ ~bulk.stop_on_error
    /\ bulk.exit_status = 1
    /\ bulk.total = 3
    /\ bulk.outcomes[1] # "ok"
    /\ bulk.outcomes[3] = "ok"

\* --------------------------------------------------------------------------
\* Claims about run_search
\* --------------------------------------------------------------------------
\* the row run_search returns for result row or hit h with manifest fields c, k
Row(h, c, k) == [doc_id |-> h.doc_id, source |-> h.source_file, score |-> h.score,
                 case |-> c, kind |-> k]

\* the last record of the manifest whose txt names the file of the hit
NamesFile(rec, hit) ==
    \/ Get(rec, "txt") = Str(hit.source_file)
    \/ Get(rec, "txt") # Null /\ CWD \o Get(rec, "txt").s = hit.source_file

Derived(hit, key) ==
    LET named == {i \in DOMAIN search.manifest : NamesFile(search.manifest[i], hit)} IN
    IF named = {} THEN Null
    ELSE Get(search.manifest[CHOOSE i \in named : \A k \in named : k <= i], key)

\* a supplied filter is met by the equal value that is not the empty string
Meets(value, wanted) == wanted = Null \/ (wanted # Str(<<>>) /\ value = wanted)

RowsOf(hits) == [i \in DOMAIN hits |-> Row(hits[i], Derived(hits[i], "case"),
                                           Derived(hits[i], "kind"))]

FirstOf(s, n) == SubSeq(s, 1, IF Len(s) < n THEN Len(s) ELSE n)

\* C20 as claimed: the list returned for a case/kind filter is the unfiltered
\* result restricted to the rows whose manifest-derived case and kind equal
\* the supplied filters, in the same order and with the same scores.
C20_FilteredIsRestrictedUnfiltered ==
    search.pc = "returned" =>
        LET unfiltered == FirstOf(RowsOf(search.hits),
                                  IF search.limit < 1 THEN 1 ELSE search.limit)
            equal(r) == /\ search.case = Null \/ r.case = search.case
                        /\ search.kind = Null \/ r.kind = search.kind
        IN search.results = SelectSeq(unfiltered, equal)

\* C20 as amended: the list returned is the ranked hit list of the engine
\* restricted to the hits whose manifest-derived case and kind meet the
\* supplied filters, in rank order and with the engine's scores, cut after
\* limit rows (after one row for a limit below 1); an empty or missing value
\* meets no filter.
C20_FilteredThenCut ==
    search.pc = "returned" =>
        LET meets(r) == Meets(r.case, search.case) /\ Meets(r.kind, search.kind) IN
        search.results = FirstOf(SelectSeq(RowsOf(search.hits), meets),
                                 IF search.limit < 1 THEN 1 ELSE search.limit)

\* a search with a case filter has returned the second of two hits alone:
\* the first, whose last manifest record has another case, is left out
C20_Witness ==
    /\ search.pc = "returned"
    /\ search.case = Str(<<"x">>)
    /\ search.limit = MaxLimit
    /\ Len(search.hits) = 2
    /\ Len(search.manifest) = 2
    /\ Len(search.results) = 1
    /\ search.results[1].doc_id = search.hits[2].doc_id
    /\ search.results[1].score = search.hits[2].score
    /\ Derived(search.hits[1], "case") = Str(<<>>)

\* --------------------------------------------------------------------------
\* Claims about searches without an index
\* --------------------------------------------------------------------------
\* C21 as claimed: a search by any entry point that finds no index to open
\* ends with an error; none returns a result list.
C21_NoIndexIsAnError ==
    (search.pc = "returned" /\ ~search.index_exists) => search.raised # NONE

\* --------------------------------------------------------------------------
\* Claims about the records of ingest_source
\* --------------------------------------------------------------------------
\* C22 as claimed: every record of the manifest carries a timestamp, which
\* append assigned when it wrote the record.
C22_RecordsCarryTimestamp ==
    LET records == iter_records(fs) IN
    \A i \in DOMAIN records : Get(records[i], "timestamp") # Null

\* the source is written with the scheme http or https, in either case
Remote(source) == Head(source) \in {"http:", "https:", "HTTP:"}

\* the document of a source: the downloaded file in input/, the absolute
\* path itself, or the relative path under input/
DocumentOf(source) ==
    IF Remote(source) THEN <<"input", "/", source[Len(source) - 1], ".pdf">>
    ELSE IF Head(source) = "/" THEN source
    ELSE <<"input", "/">> \o source

ExpectedRecord(source) ==
    (<<"kind">> :> Str(<<IF Remote(source) THEN "url_fetch" ELSE "local_file">>))
    @@ (<<"pdf">> :> Str(DocumentOf(source)))
    @@ (<<"txt">> :> Str(<<"ocr", "/", source[Len(source) - 1], ".txt">>))
    @@ (<<"source_url">> :> IF Remote(source) THEN Str(source) ELSE Null)

\* C23: ingest_source treats a source as remote exactly if its scheme is
\* http or https: a remote source is downloaded and never looked up as a
\* file, any other source is a path, taken under input/ unless absolute,
\* that is ingested exactly if the file exists; the record appended has
\* kind url_fetch and the source as source_url, or kind local_file and no
\* source_url, and <stem of the document>.txt in ocr/ as its text artifact.
C23_ClassifiesSource ==
    /\ [](ing_pc = "ingest_appended" =>
            LET records == iter_records(fs) IN
            records[Len(records)] = ExpectedRecord(ing.source))
    /\ [][started' = started + 1 =>
            IF Remote(ing'.source)
            THEN /\ ing'.result \in {"none", "RequestException"}
                 /\ ing_pc' = "ingest_resolved" =>
                        /\ ing'.kind = "url_fetch"
                        /\ ing'.pdf_path = DocumentOf(ing'.source)
                        /\ ing'.pdf_path \in DOMAIN input_dir'
            ELSE /\ input_dir' = input_dir
                 /\ IF DocumentOf(ing'.source) \in DOMAIN input_dir
                    THEN /\ ing_pc' = "ingest_resolved"
                         /\ ing'.kind = "local_file"
                         /\ ing'.pdf_path = DocumentOf(ing'.source)
                    ELSE ing_pc' = "idle" /\ ing'.result = "FileNotFoundError"]_vars

\* three ingestions have appended their records: of a URL written HTTP://,
\* of an absolute path, and of the path ftp://h/e.pdf under input/
C23_Witness ==
    /\ Len(appended) = 3
    /\ ing_pc = "ingest_appended"
    /\ \E i \in 1..3 : Get(appended[i], "source_url")
                        = Str(<<"HTTP:", SLASH, SLASH, "h", SLASH, "b", ".pdf">>)
    /\ \E i \in 1..3 : Get(appended[i], "pdf") = Str(<<SLASH, "tmp", SLASH, "c", ".pdf">>)
    /\ \E i \in 1..3 :
        /\ Get(appended[i], "kind") = Str(<<"local_file">>)
        /\ Get(appended[i], "txt") = Str(OCR_DIR \o <<"e", ".txt">>)

\* --------------------------------------------------------------------------
\* C24: when fetches to one origin run concurrently against one shared
\* throttle state, access to the last-request map is mutually exclusive: no
\* two of them both observe "no prior request" or the same stale timestamp,
\* and no two of them are issued less than the per-domain delay apart.
\* --------------------------------------------------------------------------
Issued(t) == threads[t].op = "fetch_url" /\ threads[t].pc = "requested"

Apart(a, b) ==
    IF threads[a].stamp >= threads[b].stamp
    THEN threads[a].stamp - threads[b].stamp
    ELSE threads[b].stamp - threads[a].stamp

C24_ThrottleMutuallyExclusive ==
    \A a, b \in DOMAIN threads :
        (/\ a # b
         /\ Issued(a)
         /\ Issued(b)
         /\ ThrottleKey(threads[a].url) = ThrottleKey(threads[b].url))
        => /\ threads[a].last # threads[b].last
           /\ Apart(a, b) >= cfg.delay_seconds

\* --------------------------------------------------------------------------
\* C25: when several calls append to the manifest concurrently, the appends
\* are serialized: once all of them have finished, a scan of the manifest
\* yields exactly the appended records, each one once per append and intact.
\* --------------------------------------------------------------------------
AllClosed == threads # NoThreads /\ \A t \in DOMAIN threads : threads[t].pc = "closed"

BagOfSeq(s) == LET vals == {s[i] : i \in DOMAIN s} IN
    [v \in vals |-> Cardinality({i \in DOMAIN s : s[i] = v})]

C25_AppendsSerialized ==
    (AllClosed /\ \A t \in DOMAIN threads : threads[t].op = "append_record")
    => BagOfSeq(iter_records(fs)) = BagOfSeq(appended)

\* --------------------------------------------------------------------------
\* C26: two concurrent ingests of one document do not race on the index:
\* once both have finished, neither has failed on the index, and the index
\* holds exactly one entry for the identifier, whose content is the content
\* of the text file on disk.
\* --------------------------------------------------------------------------
AllIngested ==
    /\ threads # NoThreads
    /\ \A t \in DOMAIN threads : threads[t].op = "ingest_source" /\ threads[t].pc = "done"

EntriesOf(doc_id) == {d \in DOMAIN index : d.doc_id = doc_id}

C26_IndexUpsertsSerialized ==
    AllIngested =>
        \A t \in DOMAIN threads :
            LET txt_path == txt_path_of(ThreadPdf(t)) IN
            /\ threads[t].raised # "LockError"
            /\ \E d \in EntriesOf(Stem(txt_path)) :
                /\ EntriesOf(Stem(txt_path)) = {d}
                /\ index[d] = 1
                /\ d.content = ocr_dir[txt_path]

\* --------------------------------------------------------------------------
\* C27: every request made while crawling a URL, the robots.txt retrieval as
\* well as the page fetch, is bounded by a timeout: whenever the crawl is
\* waiting for an answer it is eventually back in its loop, at the next
\* frontier entry or at the end.
\* --------------------------------------------------------------------------
C27_SilentServerCannotStop ==
    (crawl_pc = "robots_read") ~> (crawl_pc \in {"loop", "done"})

\* --------------------------------------------------------------------------
\* C28: during one crawl the robots.txt of an origin is requested at most
\* once, on the first URL of that origin that is popped, and the policy kept
\* for the origin, the outcome of a failed retrieval included, decides every
\* later URL of it.  A retrieval is a step that puts a parser into the cache.
\* --------------------------------------------------------------------------
Unread(rp) == ~rp.disallow_all /\ ~rp.allow_all /\ ~rp.last_checked

C28_RobotsOncePerOrigin ==
    [][/\ \A b \in DOMAIN parsers : b \in DOMAIN parsers' /\ parsers'[b] = parsers[b]
       /\ DOMAIN parsers' # DOMAIN parsers =>
            /\ queue # <<>>
            /\ DOMAIN parsers' = DOMAIN parsers \cup {Base(Head(queue)[1])}
            /\ Head(queue)[1] \notin visited
            /\ \A v \in visited : Base(v) # Base(Head(queue)[1])
       /\ visited' # visited =>
            /\ Base(Head(queue)[1]) \in DOMAIN parsers'
            /\ (docLog' # docLog) =
                 rp_can_fetch(parsers'[Base(Head(queue)[1])], Head(queue)[1])
      ]_vars

\* two URLs of one origin have been popped and decided by the rules read on
\* the first, one fetched and one refused, and a URL of another origin has
\* been refused because its robots.txt could not be read
C28_Witness ==
    /\ \E u, v \in visited :
        /\ Base(u) = Base(v)
        /\ parsers[Base(u)].last_checked
        /\ \E i \in DOMAIN docLog : docLog[i] = u
        /\ \A i \in DOMAIN docLog : docLog[i] # v
    /\ \E w \in visited : Unread(parsers[Base(w)])

\* --------------------------------------------------------------------------
\* C29: for every URL the file name a fetcher derives is a single path
\* component inside the input directory: not empty, not "." or "..", with no
\* path separator and no other character outside letters, digits, ".", "_"
\* and "-", and every file a fetch writes lies directly in the input
\* directory under such a name.
\* --------------------------------------------------------------------------
SafeComponent(name) ==
    /\ name \notin {<<>>, <<".">>, <<".", ".">>}
    /\ \A i \in DOMAIN name : name[i] \notin {SLASH, BSLASH, "?"}

UnderInput(path) ==
    /\ IsPrefix(INPUT_DIR, path)
    /\ SafeComponent(SubSeq(path, Len(INPUT_DIR) + 1, Len(path)))

Fetched == started = 1 /\ ing.kind \in Fetchers

C29_DerivedNameIsSafe ==
    Fetched => /\ UnderInput(ing.pdf_path)
               /\ \A p \in DOMAIN input_dir : UnderInput(p)

\* --------------------------------------------------------------------------
\* C30: the frontier is first-in first-out.  Its entries stand in
\* non-decreasing depth order and the entries of depth 0 are the seeds not
\* popped yet, in the order given; every step that changes it pops its head
\* and appends behind the rest, so that nothing left in it is shallower than
\* the popped entry: no URL of depth d + 1 is popped while one of depth d
\* waits.
\* --------------------------------------------------------------------------
DepthZero(e) == e[2] = 0

C30_FifoByDepth ==
    /\ [](\A i, j \in DOMAIN queue : i < j => queue[i][2] <= queue[j][2])
    /\ [](\E k \in 0..Len(seed_urls) :
            SelectSeq(queue, DepthZero) =
                [i \in 1..(Len(seed_urls) - k) |-> <<seed_urls[k + i], 0>>])
    /\ [][queue' # queue =>
            /\ queue # <<>>
            /\ Len(queue') >= Len(queue) - 1
            /\ SubSeq(queue', 1, Len(queue) - 1) = Tail(queue)
            /\ \A i \in DOMAIN queue' : queue'[i][2] >= Head(queue)[2]]_vars

\* two different seeds have been fetched in the order given, a page of depth
\* 1 has been expanded, and the frontier holds entries of depth 1 and 2
C30_Witness ==
    /\ Len(seed_urls) = 2
    /\ Len(docLog) >= 3
    /\ docLog[1] = seed_urls[1]
    /\ docLog[2] = seed_urls[2]
    /\ seed_urls[1] # seed_urls[2]
    /\ \E i, j \in DOMAIN queue : queue[i][2] = 1 /\ queue[j][2] = 2

\* --------------------------------------------------------------------------
\* C31: extract_links returns each qualifying link once, in order of first
\* occurrence in the page; a returned link has scheme http or https and,
\* with same_domain_only, the netloc of the page; so in a same-domain crawl
\* every visited URL has the netloc of a seed.
\* --------------------------------------------------------------------------
Qualifies(page, link, same_domain_only) ==
    /\ link.scheme \in {"http", "https"}
    /\ same_domain_only => link.netloc = page.netloc

FirstAt(links, link) == CHOOSE i \in DOMAIN links :
    links[i] = link /\ \A k \in 1..(i - 1) : links[k] # link

C31_LinksOnceInOrder ==
    /\ \A page \in DOMAIN web, flag \in BOOLEAN :
        LET found == extract_links(page, web[page], flag) IN
        /\ Range(found) = {l \in Range(web[page]) : Qualifies(page, l, flag)}
        /\ \A i, j \in DOMAIN found :
            i < j => FirstAt(web[page], found[i]) < FirstAt(web[page], found[j])
    /\ cfg.same_domain_only =>
        \A v \in visited : \E i \in DOMAIN seed_urls : seed_urls[i].netloc = v.netloc
    /\ \A e \in Range(queue) :
        e[2] > 0 => \E page \in expandLog : /\ e[1] \in Range(web[page])
                                            /\ Qualifies(page, e[1], cfg.same_domain_only)

\* a same-domain crawl has expanded a page with a repeated link and a page
\* with links to another host and to another scheme
C31_Witness ==
    /\ cfg.same_domain_only
    /\ web = WebCyclic
    /\ {UrlRoot, UrlPlain} \subseteq expandLog

\* --------------------------------------------------------------------------
\* C32: run_search never returns more than limit results, for any limit,
\* 0 included, and the limit counts the hits that pass the case and kind
\* filters: when at least limit hits pass, the limit highest ranked of them
\* are returned.
\* --------------------------------------------------------------------------
Passing ==
    SelectSeq(RowsOf(search.hits),
              LAMBDA r : Meets(r.case, search.case) /\ Meets(r.kind, search.kind))

C32_AtMostLimitResults ==
    (search.pc = "returned" /\ search.entry = "run_search" /\ search.raised = NONE) =>
        /\ Len(search.results) <= search.limit
        /\ Len(Passing) >= search.limit => search.results = SubSeq(Passing, 1, search.limit)

\* --------------------------------------------------------------------------
\* Claims about what cleanup_manifest keeps and writes
\* --------------------------------------------------------------------------
\* a cleanup that was not a dry run has returned
CleanupWrote == cl_pc = "done" /\ ~cl_dry_run /\ entries # <<>>

\* entry i is the first one with its identity tuple
FirstOccurrence(i) ==
    \A j \in 1..(i - 1) : IdentityTuple(entries[j]) # IdentityTuple(entries[i])

\* no record of the file holds the line separator U+2028
PlainFile == \A i \in DOMAIN appended : LS \notin Range(Get(appended[i], "source_url").s)

\* no backup in particular, and the run has returned.
C34_DryRunChangesNothing ==
    cl_dry_run =>
        /\ cl_pc = "done"
        /\ DOMAIN fs = {MANIFEST_PATH}
        /\ fs[MANIFEST_PATH] = cl_before

\* a dry run that counted a duplicate and an anomaly to drop, on a manifest
\* that a cleanup would rewrite
C34_Witness ==
    /\ cl_dry_run
    /\ cl_pc = "done"
    /\ dropped_duplicates >= 1
    /\ dropped_anomalies >= 1
    /\ backup_path \notin DOMAIN fs
    /\ fs[MANIFEST_PATH] # FileOf(cleaned)

\* C35: with --stop-on-error no source is attempted after the first that
\* fails: once an item has failed the loop is left, the sources attempted
\* are the listed ones up to and including that item, failed = 1, and the
\* run exits with status 1.
C35_StopsAtFirstFailure ==
    (bulk.pc # "off" /\ bulk.stop_on_error /\ Failed(bulk.outcomes) # {}) =>
        /\ bulk.pc \in {"summary", "exited"}
        /\ Failed(bulk.outcomes) = {Len(bulk.outcomes)}
        /\ bulk.attempted = SubSeq(ListedSources(bulk.lines), 1, Len(bulk.outcomes))
        /\ bulk.total = Len(bulk.outcomes)
        /\ bulk.failures = 1
        /\ bulk.successes = bulk.total - 1
        /\ bulk.pc = "exited" => bulk.exit_status = 1

\* a run with --stop-on-error has exited after the second of three listed
\* sources failed
C35_Witness ==
    /\ bulk.pc = "exited"
    /\ bulk.stop_on_error
    /\ Len(ListedSources(bulk.lines)) = 3
    /\ bulk.outcomes = <<"ok", "FileNotFoundError">>
    /\ bulk.exit_status = 1

\* C36: a cleanup of a manifest that an earlier cleanup wrote drops no
\* duplicate and no anomaly and writes the records it found: the manifest
\* holds the same bytes after it as before.
C36_CleanupIdempotent ==
    [][cleanup_again =>
        /\ dropped_duplicates' = 0
        /\ dropped_anomalies' = 0
        /\ iter_records(fs') = iter_records(fs)
        /\ fs'[MANIFEST_PATH] = fs[MANIFEST_PATH]]_vars

\* --------------------------------------------------------------------------
\* Claims about run_topic_harvest
\* --------------------------------------------------------------------------
\* the requests of a harvest: the crawler's fetches, timed by the stamp the
\* throttler takes just before each, and the downloads of the callback
HarvestRequests ==
    {[origin |-> Base(fetchLog[i].url), at |-> fetchLog[i].stamp, by |-> <<"fetch_url", i>>] :
        i \in DOMAIN fetchLog}
    \cup {[origin |-> Base(downloads[i].url), at |-> downloads[i].start,
           by |-> <<"fetch_pdf", i>>] : i \in DOMAIN downloads}

\* the manifest records that name the text artifact of a result row
RecordsNaming(row) ==
    {i \in DOMAIN search.manifest :
        NamesFile(search.manifest[i], [source_file |-> row.source])}

\* C38: every row run_search returns carries the case and the kind of the
\* last manifest record, in file order, that names its text artifact; a row
\* whose artifact no record names carries case = kind = null, and such a
\* row is returned only by a search without case and kind filter.
C38_LatestRecordDecides ==
    (search.pc = "returned" /\ search.entry = "run_search") =>
        \A k \in DOMAIN search.results :
            LET row == search.results[k]
                named == RecordsNaming(row)
            IN IF named = {}
               THEN /\ row.case = Null /\ row.kind = Null
                    /\ search.case = Null /\ search.kind = Null
               ELSE LET last == CHOOSE i \in named : \A j \in named : j <= i IN
                    /\ row.case = Get(search.manifest[last], "case")
                    /\ row.kind = Get(search.manifest[last], "kind")

\* an unfiltered search returned two rows: one for an artifact that two
\* records of different case and kind name, with the values of the second,
\* and one for an artifact without a record
C38_Witness ==
    /\ search.pc = "returned"
    /\ search.entry = "run_search"
    /\ Len(search.results) = 2
    /\ Len(search.manifest) = 2
    /\ RecordsNaming(search.results[1]) = {1, 2}
    /\ Get(search.manifest[1], "case") # Get(search.manifest[2], "case")
    /\ Get(search.manifest[1], "kind") # Get(search.manifest[2], "kind")
    /\ search.results[1].case = Get(search.manifest[2], "case")
    /\ RecordsNaming(search.results[2]) = {}
    /\ search.results[2].case = Null

\* --------------------------------------------------------------------------
\* Claims about the commands of vault_cli
\* --------------------------------------------------------------------------
\* the entries of manifest.json other than that of doc_id are after the
\* step what they were before it
OthersKept(doc_id) ==
    \A e \in (DOMAIN cli_manifest \cup DOMAIN cli_manifest') \ {doc_id} :
        /\ e \in DOMAIN cli_manifest
        /\ e \in DOMAIN cli_manifest'
        /\ cli_manifest'[e] = cli_manifest[e]

\* C39: an upsert and a delete change the entry of their own doc_id only,
\* so that every other doc_id upserted and not deleted keeps its last
\* record, also when the manifest could not be read.
C39_OnlyOwnEntryChanges ==
    [][/\ upsert_record => OthersKept(Stem(ing.pdf_path))
       /\ cmd_delete_doc => OthersKept(ing'.source)]_vars

\* C40: when delete-doc has removed a document with file deletion and
\* reindex enabled, the manifest has no record of the doc_id, the source
\* file and the text extracted from it are gone, and the rebuilt index has
\* no entry with the doc_id.
C40_DeletedEverywhere ==
    [][(/\ cmd_delete_doc
        /\ ing'.result = "deleted"
        /\ ing'.status = "files"
        /\ ing'.case = <<"reindex">>)
       => /\ ing'.source \notin DOMAIN cli_manifest'
          /\ ing'.pdf_path \notin DOMAIN input_dir'
          /\ txt_path_of(ing'.pdf_path) \notin DOMAIN ocr_dir'
          /\ \A d \in BagToSet(index') : d.doc_id # ing'.source]_vars

=============================================================================
